---- MODULE Spec2Model ----
\* Verification model of buddyh/todoist-cli:
\*   - the transport pipeline Client.requestCtx (internal/api/client.go),
\*     checked under Spec;
\*   - the comment fan-out of 'tasks --details' (runTasks), checked under
\*     SpecFan;
\*   - the pure functions of the client (FindProject's scan, ...), applied
\*     to bounded inputs under SpecFn;
\*   - the handlers of the add, update, move and view commands, checked
\*     under SpecCmd;
\*   - two requestCtx calls, one with debug tracing on and one with it off,
\*     fed the same responses, checked under SpecDebug;
\*   - the task tree printer Formatter.WriteTasks, checked under SpecWT.
EXTENDS Integers, Sequences, FiniteSets, TLC

VARIABLES
    \* ---- one requestCtx call -------------------------------------------
    pc,         \* position of the call: idle, select, send, inflight, done
    method,     \* HTTP method of the call
    data,       \* kind of the data argument
    valid,      \* whether http.NewRequestWithContext accepts the request
    attempt,    \* loop variable of the retry loop
    lastErr,    \* lastErr: NoErr or a retryAfterError
    cancelled,  \* ctx.Done() is closed
    result,     \* what requestCtx returned
    doCalls,    \* history: number of httpClient.Do calls made
    log,        \* history: outcome of each Do call, in order
    waits,      \* history: duration of each completed inter-attempt wait
    token,      \* c.token, set by NewClient
    sent,       \* history: each request handed to Do
    \* ---- the comment fan-out of runTasks -------------------------------
    fpc,        \* position of the runTasks goroutine
    ntasks,     \* len(tasks)
    nextTask,   \* index of the next task the for loop hands to g.Go
    wstate,     \* per task: state of its worker goroutine
    sem,        \* errgroup: number of slots taken (len of the limit channel)
    mu,         \* sync.Mutex: 0 when free, else the task holding it
    commentsMap,\* the shared result mapping (task -> comments)
    gerr,       \* errgroup: g.err, written under errOnce
    gctx,       \* errgroup: the shared ctx is cancelled
    firstErr,   \* history: the error of the worker that failed first
    printed,    \* stdout of the details branch, one entry per line group
    mapReads,   \* history: number of reads of commentsMap by runTasks
    ret,        \* what runTasks returned
    \* ---- one application of a pure function ---------------------------
    fin,        \* the function applied and its arguments
    fout,       \* what it returned
    \* ---- one run of a command (its RunE handler) -----------------------
    cmd,        \* the command and its flags
    env,        \* what the configuration and the server answer
    calls,      \* history: the API calls the handler made, in order
    stdout,     \* what the handler wrote to os.Stdout
    cret,       \* the error RunE returned
    \* ---- two requestCtx calls fed the same events ----------------------
    dbgRun,     \* the call of a client with SetDebug(true)
    quietRun,   \* the call of a client with debug off
    \* ---- one call of Formatter.WriteTasks ------------------------------
    wtPc,       \* position of WriteTasks: start, print, done
    wtTasks,    \* the tasks argument
    wtJSON,     \* f.asJSON
    roots,      \* the roots slice, after sortTasks
    childrenMap,\* parent ID -> the children slice, after sortTasks
    stack,      \* the printTaskRecursive calls in progress, innermost last
    rootIdx,    \* index into roots of the for loop of WriteTasks
    wtOut       \* what was written to f.w

rvars == <<pc, method, data, valid, attempt, lastErr, cancelled, result,
           doCalls, log, waits, token, sent>>
fvars == <<fpc, ntasks, nextTask, wstate, sem, mu, commentsMap, gerr, gctx,
           firstErr, printed, mapReads, ret>>
pvars == <<fin, fout>>
cvars == <<cmd, env, calls, stdout, cret>>
dvars == <<dbgRun, quietRun>>
wvars == <<wtPc, wtTasks, wtJSON, roots, childrenMap, stack, rootIdx, wtOut>>
ovars == <<pvars, cvars, dvars, wvars>>
vars == <<rvars, fvars, ovars>>

\* ------------------------------------------------------------------------
\* Program constants
\* ------------------------------------------------------------------------
maxRetries == 3

FallbackWait == 5

\* g.SetLimit(5)
Limit == 5

\* ------------------------------------------------------------------------
\* Bounds of the model
\* ------------------------------------------------------------------------
\* largest number of tasks GetTasks returns
MaxTasks == 7

\* ------------------------------------------------------------------------
\* Input domains
\* ------------------------------------------------------------------------
Methods == {"GET", "POST"}

DataKinds == {"nil", "value", "unmarshalable"}

\* Status codes a server may answer with.
Statuses == {200, 204, 302, 400, 401, 403, 404, 429, 500}

\* Response bodies.
Bodies == {"", "rate limited"}

\* Retry-After header values as character sequences; <<>> is the absent
\* (or empty) header.
RetryAfterVals ==
    { <<>>, <<"0">>, <<"2">>, <<"1", "0">>, <<"-", "1">>, <<"2", "s">> }

NoErr == [kind |-> "nil", after |-> 0]

\* the nil error of a worker / of the errgroup
NoFail == [kind |-> "nil", task |-> 0]

NoResult == [kind |-> "none", status |-> 0, body |-> "", cause |-> "nil"]

\* ------------------------------------------------------------------------
\* strconv.Atoi on the header value
\* ------------------------------------------------------------------------
Digits == {"0", "1", "2", "3", "4", "5", "6", "7", "8", "9"}

DigitVal(c) ==
    CASE c = "0" -> 0 [] c = "1" -> 1 [] c = "2" -> 2 [] c = "3" -> 3
      [] c = "4" -> 4 [] c = "5" -> 5 [] c = "6" -> 6 [] c = "7" -> 7
      [] c = "8" -> 8 [] c = "9" -> 9

RECURSIVE ParseDigits(_, _)
\* value of a digit sequence s, most significant first, acc carried in
ParseDigits(s, acc) ==
    IF s = <<>> THEN acc
    ELSE ParseDigits(Tail(s), acc * 10 + DigitVal(Head(s)))

\* Atoi: optional sign, then one or more decimal digits.
Atoi(s) ==
    LET signed == s # <<>> /\ Head(s) \in {"+", "-"}
        ds     == IF signed THEN Tail(s) ELSE s
        ok     == ds # <<>> /\ \A i \in 1..Len(ds) : ds[i] \in Digits
        mag    == IF ok THEN ParseDigits(ds, 0) ELSE 0
    IN  [ok  |-> ok,
         val |-> IF signed /\ Head(s) = "-" THEN 0 - mag ELSE mag]

\* ------------------------------------------------------------------------
\* Helpers of requestCtx
\* ------------------------------------------------------------------------
\* wait, in seconds, chosen for a 429 response (lines 155-160)
RetryWait_fallbackOnly(ra) == FallbackWait

RetryWait_noErrCheck(ra) == IF ra # <<>> THEN Atoi(ra).val ELSE FallbackWait

RetryWait(ra) ==
    IF ra # <<>> /\ Atoi(ra).ok THEN Atoi(ra).val ELSE FallbackWait

\* the retry condition (line 154)
ShouldRetry_anyError(status, att) == status >= 400 /\ att < maxRetries

ShouldRetry_noLimit(status, att) == status = 429 /\ att <= maxRetries

ShouldRetry(status, att) == status = 429 /\ att < maxRetries

\* classification of the terminal response (lines 168-178)
Classify_authAsApi(status, body) ==
    IF status >= 400
    THEN [kind |-> "api", status |-> status, body |-> body, cause |-> "nil"]
    ELSE [kind |-> "ok", status |-> status, body |-> body, cause |-> "nil"]

Classify(status, body) ==
    IF status >= 400
    THEN IF status \in {401, 403}
         THEN [kind |-> "auth", status |-> status, body |-> body,
               cause |-> "api"]
         ELSE [kind |-> "api", status |-> status, body |-> body,
               cause |-> "nil"]
    ELSE [kind |-> "ok", status |-> status, body |-> body, cause |-> "nil"]

\* the ctx.Done() case of the select is ready (lines 103, 110)
CtxDoneReady_never == FALSE

CtxDoneReady == cancelled

\* the time.After case of the select can be taken (lines 105, 112): the
\* timer fires while no cancellation has been seen, or it is ready at once
\* because the duration is not positive (then select picks either case)
TimerCanFire(d) == ~CtxDoneReady \/ d <= 0

\* httpClient.Do fails at once, or aborts the attempt in flight, when the
\* request's context is cancelled (line 136)
DoAborts_ignoresCtx == FALSE

DoAborts == cancelled

\* the API tokens a client is created with
Tokens == { <<"t", "0", "k">>, <<"s", "e", "c", "r", "e", "t">> }

BearerPrefix == <<"B", "e", "a", "r", "e", "r", " ">>

AuthHeader_noScheme(tok) == tok

\* line 128: fmt.Sprintf("Bearer %s", c.token)
AuthHeader(tok) == BearerPrefix \o tok

\* lines 128-129: the headers set on the request of every attempt
Headers(tok) ==
    [Authorization |-> AuthHeader(tok), ContentType |-> "application/json"]

\* ------------------------------------------------------------------------
\* Initial states
\* ------------------------------------------------------------------------
ReqInit ==
    /\ pc = "idle"
    /\ method = "GET"
    /\ data = "nil"
    /\ valid = TRUE
    /\ attempt = 0
    /\ lastErr = NoErr
    /\ cancelled = FALSE
    /\ result = NoResult
    /\ doCalls = 0
    /\ log = <<>>
    /\ waits = <<>>
    /\ sent = <<>>

\* the client of the other specifications
OneClient == token = <<"t", "0", "k">>

FanIdle ==
    /\ fpc = "off"
    /\ ntasks = 0
    /\ nextTask = 1
    /\ wstate = <<>>
    /\ sem = 0
    /\ mu = 0
    /\ commentsMap = <<>>
    /\ gerr = NoFail
    /\ gctx = FALSE
    /\ firstErr = NoFail
    /\ printed = <<>>
    /\ mapReads = 0
    /\ ret = [kind |-> "none", task |-> 0]

\* nothing has been applied
NoOut == [kind |-> "none"]

FnIdle ==
    /\ fin = [fn |-> "none"]
    /\ fout = NoOut

\* RunE has not returned
NoRet == [kind |-> "none"]

CmdIdle ==
    /\ cmd = [name |-> "none"]
    /\ env = [client |-> "none"]
    /\ calls = <<>>
    /\ stdout = <<>>
    /\ cret = NoRet

\* a requestCtx call not yet made, with what it has written to os.Stderr
IdleRun ==
    [pc |-> "idle", method |-> "GET", data |-> "nil", valid |-> TRUE,
     attempt |-> 0, lastErr |-> NoErr, result |-> NoResult, doCalls |-> 0,
     log |-> <<>>, waits |-> <<>>, stderr |-> <<>>]

DbgIdle ==
    /\ dbgRun = IdleRun
    /\ quietRun = IdleRun

WTIdle ==
    /\ wtPc = "off"
    /\ wtTasks = <<>>
    /\ wtJSON = FALSE
    /\ roots = <<>>
    /\ childrenMap = <<>>
    /\ stack = <<>>
    /\ rootIdx = 1
    /\ wtOut = <<>>

OthersIdle == FnIdle /\ CmdIdle /\ DbgIdle /\ WTIdle

Init == ReqInit /\ token \in Tokens /\ FanIdle /\ OthersIdle

\* the JSON object without keys
EmptyObj == [k \in {} |-> 0]

\* ---- the URL and body of a request (client.go 69-94) -------------------
\* url.QueryEscape on the characters of the model: a space becomes +,
\* the separators & and = are percent-encoded, letters and digits stay
EscapeChar(c) ==
    IF c = " " THEN <<"+">>
    ELSE IF c = "&" THEN <<"%", "2", "6">>
    ELSE IF c = "=" THEN <<"%", "3", "D">>
    ELSE <<c>>

RECURSIVE QueryEscape(_)
QueryEscape(str) ==
    IF str = <<>> THEN <<>>
    ELSE EscapeChar(Head(str)) \o QueryEscape(Tail(str))

\* the parameter names of the model, in the order url.Values.Encode sorts
\* them
SortedKeys == <<"filter", "project_id", "task_id">>

\* url.Values.Encode: key=value pairs in key order (joined by &)
Encode(values) ==
    LET keys == SelectSeq(SortedKeys, LAMBDA k : k \in DOMAIN values)
    IN  [i \in 1..Len(keys) |->
            [key |-> keys[i], value |-> QueryEscape(values[keys[i]])]]

KeepParam_always(v) == TRUE

\* line 78: if v != ""
KeepParam(v) == v # <<>>

\* lines 76-81: the url.Values built from the params map
ValuesOf(params) ==
    [k \in {x \in DOMAIN params : KeepParam(params[x])} |-> params[k]]

\* reqURL without a query string
NoQuery == [present |-> FALSE, pairs |-> <<>>]

AppendQuery_always(values) == TRUE

\* line 82: if len(values) > 0
AppendQuery(values) == DOMAIN values # {}

\* lines 69-94: the query string of reqURL and the kind of bodyBytes
BuildRequest(m, dat) ==
    IF dat.kind = "nil" THEN [query |-> NoQuery, bodyBytes |-> "nil"]
    ELSE IF m = "GET"
    THEN IF dat.kind = "params"
         THEN LET values == ValuesOf(dat.params)
              IN  [query |-> IF AppendQuery(values)
                             THEN [present |-> TRUE, pairs |-> Encode(values)]
                             ELSE NoQuery,
                   bodyBytes |-> "nil"]
         ELSE [query |-> NoQuery, bodyBytes |-> "nil"]
    ELSE [query |-> NoQuery, bodyBytes |-> "json"]

\* ---- the request of one call ------------------------------------------
\* the map[string]string handed to the call as data
CallParams ==
    ("filter" :> <<"p", "1", " ", "&", " ", "t", "o", "d", "a", "y">>)
        @@ ("project_id" :> <<>>)

\* the data argument of the call: nil, the parameter map, or a value that
\* json.Marshal rejects and that is no parameter map
DataOf(d) ==
    IF d = "nil" THEN [kind |-> "nil", params |-> EmptyObj]
    ELSE IF d = "value" THEN [kind |-> "params", params |-> CallParams]
    ELSE [kind |-> "struct", params |-> EmptyObj]

\* line 89: json.Marshal of the map, every key kept, in key order
MarshalMap(params) ==
    LET keys == SelectSeq(SortedKeys, LAMBDA k : k \in DOMAIN params)
    IN  [i \in 1..Len(keys) |-> [key |-> keys[i], value |-> params[keys[i]]]]

\* lines 71-94: bodyBytes, <<>> when nil
BodyBytes(m, d) ==
    IF BuildRequest(m, DataOf(d)).bodyBytes = "json"
    THEN MarshalMap(DataOf(d).params) ELSE <<>>

\* bytes.NewReader
NewReader(b) == [buf |-> b, off |-> 0]

\* what Do reads from the reader: the bytes from its offset on
ReadAll(r) == SubSeq(r.buf, r.off + 1, Len(r.buf))

BodyReader_createdBeforeLoop(b, earlier) ==
    [buf |-> b, off |-> IF earlier > 0 THEN Len(b) ELSE 0]

\* lines 118-121: every iteration makes a new reader over bodyBytes,
\* whatever the earlier attempts read
BodyReader(b, earlier) == NewReader(b)

\* lines 118-129: the request of an attempt, after earlier attempts were
\* handed to Do: method, reqURL (its query string), the body Do reads and
\* the headers
RequestOf(m, d, tok, earlier) ==
    [method |-> m,
     query |-> BuildRequest(m, DataOf(d)).query,
     hasBody |-> BuildRequest(m, DataOf(d)).bodyBytes # "nil",
     body |-> ReadAll(BodyReader(BodyBytes(m, d), earlier)),
     Authorization |-> Headers(tok).Authorization,
     ContentType |-> Headers(tok).ContentType]

\* ------------------------------------------------------------------------
\* requestCtx (client.go 68-182)
\* ------------------------------------------------------------------------
Return(r) ==
    /\ pc' = "done"
    /\ result' = r

\* lines 68-97: build the URL / body, enter the loop with attempt = 0
Call(m, d, v) ==
    /\ pc = "idle"
    /\ method' = m
    /\ data' = d
    /\ valid' = v
    /\ attempt' = 0
    /\ IF m # "GET" /\ d = "unmarshalable"
       THEN Return([NoResult EXCEPT !.kind = "marshal"])
       ELSE pc' = "send" /\ UNCHANGED result
    /\ UNCHANGED <<lastErr, cancelled, doCalls, log, waits, fvars, ovars,
                   token, sent>>

\* the caller cancels ctx
Cancel ==
    /\ pc # "done"
    /\ ~cancelled
    /\ cancelled' = TRUE
    /\ UNCHANGED <<pc, method, data, valid, attempt, lastErr, result,
                   doCalls, log, waits, fvars, ovars,
                   token, sent>>

SelectWait_backoff == 2 ^ (attempt - 1)

\* the duration the select at the loop top waits for: the retryAfterError's
\* hint, else the exponential backoff 1 << (attempt-1) (lines 101, 108)
SelectWait ==
    IF lastErr.kind = "retryAfter" THEN lastErr.after
    ELSE 2 ^ (attempt - 1)

\* lines 98-116, case <-ctx.Done(): return nil, ctx.Err()
WaitCancelled ==
    /\ pc = "select"
    /\ CtxDoneReady
    /\ Return([NoResult EXCEPT !.kind = "ctx", !.cause = "ctx"])
    /\ UNCHANGED <<method, data, valid, attempt, lastErr, cancelled,
                   doCalls, log, waits, fvars, ovars,
                   token, sent>>

\* lines 98-116, case <-time.After(...)
WaitElapsed ==
    /\ pc = "select"
    /\ TimerCanFire(SelectWait)
    /\ pc' = "send"
    /\ waits' = Append(waits, [secs |-> SelectWait,
                                backoff |-> lastErr.kind # "retryAfter"])
    /\ UNCHANGED <<method, data, valid, attempt, lastErr, cancelled, result,
                   doCalls, log, fvars, ovars,
                   token, sent>>

\* lines 118-142: build the request and hand it to httpClient.Do
Send ==
    /\ pc = "send"
    /\ IF ~valid
       THEN /\ Return([NoResult EXCEPT !.kind = "create"])
            /\ UNCHANGED <<doCalls, log, sent>>
       ELSE /\ doCalls' = doCalls + 1
            /\ sent' = Append(sent,
                            RequestOf(method, data, token, doCalls))
            /\ IF DoAborts
               THEN /\ Return([NoResult EXCEPT !.kind = "network",
                                               !.cause = "ctx"])
                    /\ log' = Append(log, [outcome |-> "error", status |-> 0,
                                           ra |-> <<>>, after |-> 0,
                                           body |-> ""])
               ELSE /\ pc' = "inflight"
                    /\ UNCHANGED <<result, log>>
    /\ UNCHANGED <<method, data, valid, attempt, lastErr, cancelled, waits,
                   fvars, ovars,
                   token>>

\* lines 136-142: Do returns an error (connection failure, timeout, or the
\* context was cancelled while the attempt was in flight)
DoError ==
    /\ pc = "inflight"
    /\ Return([NoResult EXCEPT !.kind = "network",
               !.cause = IF DoAborts THEN "ctx" ELSE "io"])
    /\ log' = Append(log, [outcome |-> "error", status |-> 0, ra |-> <<>>,
                           after |-> 0, body |-> ""])
    /\ UNCHANGED <<method, data, valid, attempt, lastErr, cancelled,
                   doCalls, waits, fvars, ovars,
                   token, sent>>

\* lines 144-148: the response arrived but reading its body fails
ReadError(status) ==
    /\ pc = "inflight"
    /\ ~DoAborts
    /\ Return([NoResult EXCEPT !.kind = "network", !.cause = "io"])
    /\ log' = Append(log, [outcome |-> "readerror", status |-> 0,
                           ra |-> <<>>, after |-> 0, body |-> ""])
    /\ UNCHANGED <<method, data, valid, attempt, lastErr, cancelled,
                   doCalls, waits, fvars, ovars,
                   token, sent>>

\* lines 136-181: a response with its body arrives
Respond(status, ra, body) ==
    /\ pc = "inflight"
    /\ ~DoAborts
    /\ IF ShouldRetry(status, attempt)
       THEN \* lines 154-166, then attempt++ and the loop condition
            /\ lastErr' = [kind |-> "retryAfter", after |-> RetryWait(ra)]
            /\ attempt' = attempt + 1
            /\ log' = Append(log, [outcome |-> "response",
                                   status |-> status, ra |-> ra,
                                   after |-> RetryWait(ra),
                                   body |-> ""])
            /\ IF attempt + 1 <= maxRetries
               THEN pc' = "select" /\ UNCHANGED result
               ELSE \* line 181
                    Return([NoResult EXCEPT !.kind = "max_retries",
                                            !.cause = "retryAfter"])
       ELSE \* lines 168-178
            /\ Return(Classify(status, body))
            /\ log' = Append(log, [outcome |-> "response",
                                   status |-> status, ra |-> <<>>,
                                   after |-> 0, body |-> body])
            /\ UNCHANGED <<lastErr, attempt>>
    /\ UNCHANGED <<method, data, valid, cancelled, doCalls, waits, fvars, ovars,
                   token, sent>>

Next ==
    \/ \E m \in Methods, d \in DataKinds, v \in BOOLEAN : Call(m, d, v)
    \/ Cancel
    \/ WaitCancelled
    \/ WaitElapsed
    \/ Send
    \/ DoError
    \/ \E s \in Statuses : ReadError(s)
    \/ \E s \in Statuses, ra \in RetryAfterVals, b \in Bodies :
          Respond(s, ra, b)

Spec == Init /\ [][Next]_vars

\* ------------------------------------------------------------------------
\* runTasks, details branch (cmd/todoist tasks command, lines 57-166)
\* ------------------------------------------------------------------------
FanInit ==
    /\ ReqInit
    /\ OneClient
    /\ OthersIdle
    /\ fpc = "start"
    /\ ntasks = 0
    /\ nextTask = 1
    /\ wstate = <<>>
    /\ sem = 0
    /\ mu = 0
    /\ commentsMap = <<>>
    /\ gerr = NoFail
    /\ gctx = FALSE
    /\ firstErr = NoFail
    /\ printed = <<>>
    /\ mapReads = 0
    /\ ret = [kind |-> "none", task |-> 0]

\* the comments the server holds for task t (0, 1 or 2 of them)
CommentsOf(t) == [n \in 1..(t % 3) |-> [task |-> t, idx |-> n]]

InFlight == {t \in 1..ntasks : wstate[t] = "fetch"}

\* g.Go blocks until the limit channel has a free slot (SetLimit, line 120)
SlotFree_unlimited == TRUE

SlotFree == sem < Limit

\* errOnce.Do: only the first error is stored in g.err
RecordErr_lastWins(err) == err

RecordErr(err) == IF gerr = NoFail THEN err ELSE gerr

\* what g.Wait hands back to line 136
WaitErr_ignored == NoFail

WaitErr == gerr

\* a fetch whose context is cancelled fails (GetCommentsCtx -> requestCtx)
FetchAborts_ctxIgnored == FALSE

FetchAborts == gctx

\* lines 57-120: client, project lookup, GetTasks, sort; then the branch
\* taken. n is len(tasks), ok whether every call before the fan-out
\* succeeded, det whether the details branch applies (!asJSON && details).
RunTasks(n, ok, det) ==
    /\ fpc = "start"
    /\ IF ~ok
       THEN /\ fpc' = "done"
            /\ ret' = [kind |-> "api", task |-> 0]
            /\ UNCHANGED <<ntasks, wstate, printed>>
       ELSE IF ~det
       THEN \* line 165: out.WriteTasks(tasks)
            /\ fpc' = "done"
            /\ ret' = NoFail
            /\ ntasks' = n
            /\ printed' = <<[kind |-> "WriteTasks", task |-> 0,
                             comments |-> <<>>]>>
            /\ wstate' = [t \in 1..n |-> "none"]
       ELSE IF n = 0
       THEN \* lines 107-110
            /\ fpc' = "done"
            /\ ret' = NoFail
            /\ printed' = <<[kind |-> "No tasks found.", task |-> 0,
                             comments |-> <<>>]>>
            /\ UNCHANGED <<ntasks, wstate>>
       ELSE \* lines 112-120
            /\ fpc' = "dispatch"
            /\ ntasks' = n
            /\ wstate' = [t \in 1..n |-> "none"]
            /\ UNCHANGED <<ret, printed>>
    /\ UNCHANGED <<nextTask, sem, mu, commentsMap, gerr, gctx, firstErr,
                   mapReads, rvars, ovars>>

\* lines 122-134: one iteration of the for loop, g.Go starts the worker
GoTask ==
    /\ fpc = "dispatch"
    /\ nextTask <= ntasks
    /\ SlotFree
    /\ sem' = sem + 1
    /\ wstate' = [wstate EXCEPT ![nextTask] = "fetch"]
    /\ nextTask' = nextTask + 1
    /\ fpc' = IF nextTask = ntasks THEN "wait" ELSE "dispatch"
    /\ UNCHANGED <<ntasks, mu, commentsMap, gerr, gctx, firstErr, printed,
                   mapReads, ret, rvars, ovars>>

\* line 125: GetCommentsCtx returns the comments of task t
FetchOK(t) ==
    /\ t \in 1..ntasks
    /\ wstate[t] = "fetch"
    /\ ~FetchAborts
    /\ wstate' = [wstate EXCEPT ![t] = "lock"]
    /\ UNCHANGED <<fpc, ntasks, nextTask, sem, mu, commentsMap, gerr, gctx,
                   firstErr, printed, mapReads, ret, rvars, ovars>>

\* the worker of task t returns err (line 127); the errgroup stores the
\* first error, cancels the shared context and frees the worker's slot
WorkerFails(t, err) ==
    /\ wstate' = [wstate EXCEPT ![t] = "failed"]
    /\ firstErr' = IF firstErr = NoFail THEN err ELSE firstErr
    /\ gerr' = RecordErr(err)
    /\ gctx' = TRUE
    /\ sem' = sem - 1
    /\ UNCHANGED <<fpc, ntasks, nextTask, mu, commentsMap, printed,
                   mapReads, ret, rvars, ovars>>

\* lines 125-128: the fetch of task t fails on its own (API failure,
\* network failure or unparsable body)
FetchFail(t) ==
    /\ t \in 1..ntasks
    /\ wstate[t] = "fetch"
    /\ ~FetchAborts
    /\ WorkerFails(t, [kind |-> "api", task |-> t])

\* lines 125-128: the fetch of task t fails because the shared context is
\* cancelled
FetchAbort(t) ==
    /\ t \in 1..ntasks
    /\ wstate[t] = "fetch"
    /\ FetchAborts
    /\ WorkerFails(t, [kind |-> "ctx", task |-> t])

\* mu.Lock() returns only while no worker holds the mutex (line 129)
MutexFree_notChecked == TRUE

MutexFree == mu = 0

\* line 129: mu.Lock()
Lock(t) ==
    /\ t \in 1..ntasks
    /\ wstate[t] = "lock"
    /\ MutexFree
    /\ mu' = t
    /\ wstate' = [wstate EXCEPT ![t] = "write"]
    /\ UNCHANGED <<fpc, ntasks, nextTask, sem, commentsMap, gerr, gctx,
                   firstErr, printed, mapReads, ret, rvars, ovars>>

MapKey_loopVariable(t) == nextTask - 1

\* lines 123 and 130: t := t gives the worker its own copy of the loop
\* variable, so the key it writes is the ID of its own task
MapKey(t) == t

\* lines 130-132: the write, mu.Unlock(), return nil; the slot is freed
WriteUnlock(t) ==
    /\ t \in 1..ntasks
    /\ wstate[t] = "write"
    /\ mu = t
    /\ commentsMap' = [x \in (DOMAIN commentsMap) \cup {MapKey(t)} |->
                          IF x = MapKey(t) THEN CommentsOf(t)
                          ELSE commentsMap[x]]
    /\ mu' = 0
    /\ wstate' = [wstate EXCEPT ![t] = "ok"]
    /\ sem' = sem - 1
    /\ UNCHANGED <<fpc, ntasks, nextTask, gerr, gctx, firstErr, printed,
                   mapReads, ret, rvars, ovars>>

\* lines 136-138: g.Wait() returns once every worker has finished
Wait ==
    /\ fpc = "wait"
    /\ sem = 0
    /\ gctx' = TRUE
    /\ IF WaitErr # NoFail
       THEN fpc' = "done" /\ ret' = WaitErr
       ELSE fpc' = "print" /\ UNCHANGED ret
    /\ UNCHANGED <<ntasks, nextTask, wstate, sem, mu, commentsMap, gerr,
                   firstErr, printed, mapReads, rvars, ovars>>

\* lines 140-160: one iteration of the print loop, then return nil
PrintTask ==
    LET i == Len(printed) + 1 IN
    /\ fpc = "print"
    /\ i <= ntasks
    /\ mapReads' = mapReads + 1
    /\ printed' = Append(printed,
          [kind |-> "task", task |-> i,
           comments |-> IF i \in DOMAIN commentsMap
                        THEN commentsMap[i] ELSE <<>>])
    /\ IF i = ntasks
       THEN fpc' = "done" /\ ret' = NoFail
       ELSE UNCHANGED <<fpc, ret>>
    /\ UNCHANGED <<ntasks, nextTask, wstate, sem, mu, commentsMap, gerr,
                   gctx, firstErr, rvars, ovars>>

FanNext ==
    \/ \E n \in 0..MaxTasks, ok \in BOOLEAN, det \in BOOLEAN :
          RunTasks(n, ok, det)
    \/ GoTask
    \/ \E t \in 1..ntasks : FetchOK(t)
    \/ \E t \in 1..ntasks : FetchFail(t)
    \/ \E t \in 1..ntasks : FetchAbort(t)
    \/ \E t \in 1..ntasks : Lock(t)
    \/ \E t \in 1..ntasks : WriteUnlock(t)
    \/ Wait
    \/ PrintTask

SpecFan == FanInit /\ [][FanNext]_vars

\* the Go scheduler runs every runnable goroutine and every fetch ends (a
\* response, an error, or the client's 30 s timeout): the fan-out never
\* stops while a step is enabled
SpecFanFair == SpecFan /\ WF_vars(FanNext)

\* ========================================================================
\* Pure functions of the client, applied to bounded inputs
\* ========================================================================
\* Strings are sequences of one-character strings.
UpperChars ==
    <<"A", "B", "C", "D", "E", "F", "G", "H", "I", "J", "K", "L", "M",
      "N", "O", "P", "Q", "R", "S", "T", "U", "V", "W", "X", "Y", "Z">>

LowerChars ==
    <<"a", "b", "c", "d", "e", "f", "g", "h", "i", "j", "k", "l", "m",
      "n", "o", "p", "q", "r", "s", "t", "u", "v", "w", "x", "y", "z">>

LowerChar(c) ==
    IF \E i \in 1..Len(UpperChars) : UpperChars[i] = c
    THEN LowerChars[CHOOSE i \in 1..Len(UpperChars) : UpperChars[i] = c]
    ELSE c

\* strings.ToLower
ToLower(str) == [i \in 1..Len(str) |-> LowerChar(str[i])]

\* strings.Index: offset of the first occurrence of substr in str from
\* offset i on, -1 when there is none
RECURSIVE IndexFrom(_, _, _)
IndexFrom(str, substr, i) ==
    IF i + Len(substr) > Len(str) THEN 0 - 1
    ELSE IF SubSeq(str, i + 1, i + Len(substr)) = substr THEN i
    ELSE IndexFrom(str, substr, i + 1)

\* strings.Contains
Contains(str, substr) == IndexFrom(str, substr, 0) >= 0

\* ---- FindProject (client.go 416-431) ----------------------------------
\* the for loop of FindProject from element i on: the index of the element
\* it returns, 0 when it falls out of the loop
RECURSIVE FindFrom(_, _, _)
FindFrom(projects, nameLower, i) ==
    IF i > Len(projects) THEN 0
    ELSE IF Contains(ToLower(projects[i].name), nameLower) THEN i
    ELSE FindFrom(projects, nameLower, i + 1)

FindProject_caseSensitive(got, name) ==
    IF got.err # "nil" THEN [kind |-> "error", err |-> got.err]
    ELSE LET i == FindFrom(got.projects, name, 1)
         IN  IF i > 0 THEN [kind |-> "ok", project |-> got.projects[i]]
             ELSE [kind |-> "not_found", name |-> name]

\* got is what GetProjects returned: an error, or the listing
FindProject(got, name) ==
    IF got.err # "nil" THEN [kind |-> "error", err |-> got.err]
    ELSE LET i == FindFrom(got.projects, ToLower(name), 1)
         IN  IF i > 0 THEN [kind |-> "ok", project |-> got.projects[i]]
             ELSE [kind |-> "not_found", name |-> name]

\* ---- unmarshalList (client.go 24-38) ----------------------------------
\* A response body is a JSON text: its parsed value, or "invalid" when the
\* bytes are not JSON (the empty body included).
JNull == [t |-> "null"]

JStr(v) == [t |-> "string", v |-> v]

\* a number, kept as its text
JNum(v) == [t |-> "number", v |-> v]

JArr(items) == [t |-> "array", items |-> items]

JObj(fields) == [t |-> "object", fields |-> fields]

JInvalid == [t |-> "invalid"]

\* encoding/json on a string field of the target struct: an absent key and
\* null leave the zero value, a string is stored, anything else is an
\* UnmarshalTypeError
StringField(fields, key) ==
    IF key \notin DOMAIN fields \/ fields[key].t = "null"
    THEN [err |-> "nil", v |-> ""]
    ELSE IF fields[key].t = "string"
    THEN [err |-> "nil", v |-> fields[key].v]
    ELSE [err |-> "type", v |-> ""]

\* encoding/json on one element of the target slice (a struct with the
\* string fields id and name): unknown keys are dropped, null leaves the
\* zero struct, a value that is not an object is an UnmarshalTypeError
DecodeItem(j) ==
    IF j.t = "null" THEN [err |-> "nil", v |-> [id |-> "", name |-> ""]]
    ELSE IF j.t = "object"
    THEN LET id == StringField(j.fields, "id")
             nm == StringField(j.fields, "name")
         IN  [err |-> IF id.err # "nil" THEN id.err ELSE nm.err,
              v |-> [id |-> id.v, name |-> nm.v]]
    ELSE [err |-> "type", v |-> [id |-> "", name |-> ""]]

\* json.Unmarshal(data, v) for v a pointer to a nil slice: null leaves the
\* slice nil without an error; an array is decoded element by element and
\* the first element error is returned after the whole array was read
DecodeSlice(j) ==
    IF j.t = "invalid" THEN [err |-> "syntax", list |-> <<>>]
    ELSE IF j.t = "null" THEN [err |-> "nil", list |-> <<>>]
    ELSE IF j.t = "array"
    THEN LET dec == [i \in 1..Len(j.items) |-> DecodeItem(j.items[i])]
             bad == {i \in 1..Len(dec) : dec[i].err # "nil"}
         IN  [err |-> IF bad = {} THEN "nil"
                      ELSE dec[CHOOSE i \in bad : \A k \in bad : i <= k].err,
              list |-> [i \in 1..Len(dec) |-> dec[i].v]]
    ELSE [err |-> "type", list |-> <<>>]

\* page.Results == nil
NoRaw == [t |-> "absent"]

\* json.Unmarshal(data, &page): Results is a json.RawMessage and keeps the
\* text of the value of "results", the text null included; NextCursor is a
\* *string
DecodePage(j) ==
    IF j.t = "invalid" THEN [err |-> "syntax", Results |-> NoRaw]
    ELSE IF j.t = "null" THEN [err |-> "nil", Results |-> NoRaw]
    ELSE IF j.t = "object"
    THEN [err |-> IF /\ "next_cursor" \in DOMAIN j.fields
                     /\ j.fields["next_cursor"].t \notin {"null", "string"}
                  THEN "type" ELSE "nil",
          Results |-> IF "results" \in DOMAIN j.fields
                      THEN j.fields["results"] ELSE NoRaw]
    ELSE [err |-> "type", Results |-> NoRaw]

unmarshalList_noFallback(body) ==
    LET page == DecodePage(body)
    IN  IF page.err = "nil" /\ page.Results # NoRaw
        THEN DecodeSlice(page.Results)
        ELSE [err |-> page.err, list |-> <<>>]

unmarshalList(body) ==
    LET page == DecodePage(body)
    IN  IF page.err = "nil" /\ page.Results # NoRaw
        THEN DecodeSlice(page.Results)
        ELSE DecodeSlice(body)

\* ---- inputs -------------------------------------------------------------
\* longest project listing
MaxProjects == 3

ProjectNames ==
    { <<"W", "o", "r", "k">>,
      <<"H", "o", "m", "e">>,
      <<"W", "o", "r", "k", " ", "P", "r", "o", "j", "e", "c", "t", "s">>,
      <<"h", "o", "m", "e", "w", "o", "r", "k">> }

Queries ==
    { <<"w", "o", "r", "k">>,
      <<"W", "O", "R", "K">>,
      <<"H", "o", "m", "e">>,
      <<"k", " ", "p">>,
      <<"w", "o", "r", "k", "s">>,
      <<"I", "n", "b", "o", "x">>,
      <<>> }

\* a listing as GetProjects decodes it: the server's ids are distinct
Listings ==
    UNION { { [i \in 1..n |-> [id |-> i, name |-> names[i]]] :
                names \in [1..n -> ProjectNames] } : n \in 0..MaxProjects }

GetProjectsResults ==
    { [err |-> "nil", projects |-> L] : L \in Listings }
        \cup { [err |-> e, projects |-> <<>>] : e \in {"api", "auth"} }

FindProjectInputs ==
    { [fn |-> "FindProject", got |-> g, name |-> q] :
        g \in GetProjectsResults, q \in Queries }

\* longest list in a response body
MaxItems == 2

\* the elements a list body is made of: two well-formed items (one with a
\* key the struct does not have), one without a name, one whose id has the
\* wrong type, null, and a number
ItemValues ==
    { JObj(("id" :> JStr("1")) @@ ("name" :> JStr("Work"))),
      JObj(("id" :> JStr("2")) @@ ("name" :> JStr("Home"))
               @@ ("color" :> JStr("red"))),
      JObj(("id" :> JStr("3"))),
      JObj(("id" :> JNum("4")) @@ ("name" :> JStr("Later"))),
      JNull,
      JNum("5") }

ItemLists == UNION { [1..n -> ItemValues] : n \in 0..MaxItems }

Bare(items) == JArr(items)

\* {"results": [...], "next_cursor": <cursor>}
Envelope(items, cursor) ==
    JObj(("results" :> JArr(items)) @@ ("next_cursor" :> cursor))

\* bodies that are neither an object with a results array nor an array
OtherBodies ==
    { JNull,
      JInvalid,
      JStr("ok"),
      JNum("0"),
      JObj(EmptyObj),
      JObj(("error" :> JStr("forbidden"))),
      JObj(("results" :> JNull) @@ ("next_cursor" :> JNull)),
      JObj(("results" :> JStr("none"))),
      JObj(("results" :> JObj(EmptyObj))) }

ListBodies ==
    { Bare(its) : its \in ItemLists }
        \cup { Envelope(its, c) :
                 its \in ItemLists, c \in {JNull, JStr("abc"), JNum("7")} }
        \cup { JObj(("results" :> JArr(its))) : its \in ItemLists }
        \cup OtherBodies

UnmarshalListInputs == { [fn |-> "unmarshalList", data |-> b] : b \in ListBodies }

ParamValues ==
    { <<>>, <<"7">>, <<"p", "1", " ", "&", " ", "t", "o", "d", "a", "y">> }

\* map[string]string arguments: any subset of the keys, any values
ParamMaps ==
    UNION { [ks -> ParamValues] : ks \in SUBSET {"filter", "project_id", "task_id"} }

RequestData ==
    { [kind |-> "nil", params |-> EmptyObj],
      [kind |-> "struct", params |-> EmptyObj] }
        \cup { [kind |-> "params", params |-> pm] : pm \in ParamMaps }

BuildRequestInputs ==
    { [fn |-> "BuildRequest", m |-> m, dat |-> d] :
        m \in Methods, d \in RequestData }

\* ---- config.Load and config.GetToken (config.go 31-58, 80-87) ----------
\* The process environment gives TODOIST_API_TOKEN as unset, or set to a
\* text; the config file is missing, unreadable, or holds a JSON text.

\* os.Getenv: the empty text for an unset variable
Getenv(e) == IF e.set THEN e.v ELSE ""

LoadOk(tok) == [err |-> "nil", token |-> tok]

LoadErr(e) == [err |-> e, token |-> ""]

\* os.ReadFile and json.Unmarshal into Config, then the empty-token test
\* (lines 39-57)
LoadFile(file) ==
    IF file.state = "missing" THEN LoadErr("not configured")
    ELSE IF file.state = "unreadable" THEN LoadErr("failed to read config")
    ELSE IF file.data.t = "invalid" THEN LoadErr("failed to parse config")
    ELSE IF file.data.t \notin {"null", "object"}
    THEN LoadErr("failed to parse config")
    ELSE LET tok == IF file.data.t = "null" THEN [err |-> "nil", v |-> ""]
                    ELSE StringField(file.data.fields, "api_token")
         IN  IF tok.err # "nil" THEN LoadErr("failed to parse config")
             ELSE IF tok.v = "" THEN LoadErr("no API token configured")
             ELSE LoadOk(tok.v)

Load_fileFirst(e, file) ==
    IF LoadFile(file).err = "nil" THEN LoadFile(file)
    ELSE IF Getenv(e) # "" THEN LoadOk(Getenv(e))
    ELSE LoadFile(file)

\* config.go 31-58
Load(e, file) ==
    IF Getenv(e) # "" THEN LoadOk(Getenv(e)) ELSE LoadFile(file)

\* config.go 80-87: the token and the error of Load
GetToken(e, file) ==
    IF Load(e, file).err # "nil"
    THEN [err |-> Load(e, file).err, token |-> ""]
    ELSE [err |-> "nil", token |-> Load(e, file).token]

EnvVars ==
    { [set |-> FALSE, v |-> ""],
      [set |-> TRUE, v |-> ""],
      [set |-> TRUE, v |-> "env-token"],
      [set |-> TRUE, v |-> " "] }

ConfigFiles ==
    { [state |-> "missing", data |-> JInvalid],
      [state |-> "unreadable", data |-> JInvalid] }
    \cup { [state |-> "present", data |-> d] :
             d \in { JInvalid, JNull, JArr(<<>>), JStr("file-token"),
                     JObj(EmptyObj),
                     JObj("api_token" :> JStr("file-token")),
                     JObj("api_token" :> JStr("")),
                     JObj("api_token" :> JNull),
                     JObj("api_token" :> JNum("7")),
                     JObj("token" :> JStr("file-token")) } }

LoadInputs ==
    { [fn |-> f, env |-> e, file |-> c] :
        f \in {"Load", "GetToken"}, e \in EnvVars, c \in ConfigFiles }

FnInputs ==
    FindProjectInputs \cup UnmarshalListInputs \cup BuildRequestInputs
        \cup LoadInputs

FnInit ==
    /\ ReqInit
    /\ OneClient
    /\ FanIdle
    /\ CmdIdle
    /\ DbgIdle
    /\ WTIdle
    /\ fin \in FnInputs
    /\ fout = NoOut

ApplyFindProject ==
    /\ fin.fn = "FindProject"
    /\ fout = NoOut
    /\ fout' = FindProject(fin.got, fin.name)
    /\ UNCHANGED <<fin, rvars, fvars, cvars, dvars, wvars>>

ApplyUnmarshalList ==
    /\ fin.fn = "unmarshalList"
    /\ fout = NoOut
    /\ fout' = unmarshalList(fin.data)
    /\ UNCHANGED <<fin, rvars, fvars, cvars, dvars, wvars>>

ApplyBuildRequest ==
    /\ fin.fn = "BuildRequest"
    /\ fout = NoOut
    /\ fout' = BuildRequest(fin.m, fin.dat)
    /\ UNCHANGED <<fin, rvars, fvars, cvars, dvars, wvars>>

ApplyLoad ==
    /\ fin.fn = "Load"
    /\ fout = NoOut
    /\ fout' = Load(fin.env, fin.file)
    /\ UNCHANGED <<fin, rvars, fvars, cvars, dvars, wvars>>

ApplyGetToken ==
    /\ fin.fn = "GetToken"
    /\ fout = NoOut
    /\ fout' = GetToken(fin.env, fin.file)
    /\ UNCHANGED <<fin, rvars, fvars, cvars, dvars, wvars>>

FnNext ==
    \/ ApplyLoad
    \/ ApplyGetToken
    \/ ApplyBuildRequest
    \/ ApplyFindProject
    \/ ApplyUnmarshalList

SpecFn == FnInit /\ [][FnNext]_vars

\* ========================================================================
\* Command handlers (cmd/todoist): one run of a RunE function
\* ========================================================================
\* An ID is a string in the code; here it is a positive number, and 0
\* stands for the empty string.
Nil == [kind |-> "nil"]

ApiErr(e) == [kind |-> "error", err |-> e]

\* fmt.Errorf("<msg>: %w", err)
Wrapped(msg, e) == [kind |-> "wrapped", msg |-> msg, err |-> e]

\* a field tagged omitempty: absent from the JSON object when zero
OmitEmpty(key, v, zero) == IF v = zero THEN EmptyObj ELSE (key :> v)

\* json.Marshal of an AddTaskParams (client.go 269-280); description, due,
\* labels, parent and assignee are unset in the model and so omitted
MarshalAddTaskParams(params) ==
    ("content" :> params.content)
        @@ OmitEmpty("priority", params.priority, 0)
        @@ OmitEmpty("project_id", params.project_id, 0)
        @@ OmitEmpty("section_id", params.section_id, 0)

\* json.Marshal of an UpdateTaskParams (client.go 298-306)
MarshalUpdateTaskParams(params) ==
    OmitEmpty("content", params.content, "")
        @@ OmitEmpty("priority", params.priority, 0)

MoveArgs_bothDestinations(taskID, sectionID, projectID) ==
    ("id" :> taskID)
        @@ (IF sectionID # 0 THEN ("section_id" :> sectionID) ELSE EmptyObj)
        @@ (IF projectID # 0 THEN ("project_id" :> projectID) ELSE EmptyObj)

\* the args of the item_move command (client.go 671-676)
MoveArgs(taskID, sectionID, projectID) ==
    ("id" :> taskID)
        @@ (IF sectionID # 0 THEN ("section_id" :> sectionID)
            ELSE IF projectID # 0 THEN ("project_id" :> projectID)
            ELSE EmptyObj)

ConvertPriority_notInverted(priority) == priority

\* add.go 50-53 and update.go 47-50: user priority to API priority
ConvertPriority(priority) == IF priority > 0 THEN 5 - priority ELSE 0

\* part_000 208-210
containsCI(str, substr) == Contains(ToLower(str), ToLower(substr))

\* add.go 70-75: the ID of the first section whose name contains the given
\* name, 0 (SectionID stays empty) when the loop ends without a match
RECURSIVE AddSectionFrom(_, _, _)
AddSectionFrom(sections, section, i) ==
    IF i > Len(sections) THEN 0
    ELSE IF containsCI(sections[i].name, section) THEN sections[i].id
    ELSE AddSectionFrom(sections, section, i + 1)

\* sections.go 294-302
RECURSIVE FindSectionFrom(_, _, _)
FindSectionFrom(sections, nameLower, i) ==
    IF i > Len(sections) THEN 0
    ELSE IF Contains(ToLower(sections[i].name), nameLower)
         THEN sections[i].id
    ELSE FindSectionFrom(sections, nameLower, i + 1)

findSectionID(sections, name) == FindSectionFrom(sections, ToLower(name), 1)

\* the task the server answers to a create or an update: what was sent,
\* with the API's default priority 1 when none was sent
TaskOf(id, body) ==
    [id |-> id,
     priority |-> IF "priority" \in DOMAIN body THEN body["priority"] ELSE 1]

ACall(api, arg, err) == [api |-> api, arg |-> arg, err |-> err]

Outcome(c, o, r) == [calls |-> c, stdout |-> o, ret |-> r]

priorityString_sameNumber(p) ==
    CASE p = 4 -> "p4"
      [] p = 3 -> "p3"
      [] p = 2 -> "p2"
      [] OTHER -> ""

\* part_003 75-86
priorityString(p) ==
    CASE p = 4 -> "p1"
      [] p = 3 -> "p2"
      [] p = 2 -> "p3"
      [] OTHER -> ""

\* Formatter.FormatTask (part_003 103-130), the priority indicator: the
\* text between the brackets, "" when no indicator is printed
FormatTask(t) == priorityString(t.priority)

\* Formatter.WriteTask (part_003 199-210)
WriteTask(asJSON, t) ==
    IF asJSON
    THEN <<[kind |-> "json", task |-> t, marker |-> ""]>>
    ELSE <<[kind |-> "task_line", task |-> t, marker |-> FormatTask(t)]>>

\* Formatter.WriteSuccess (part_003 66-72)
WriteSuccess(asJSON, msg, name) ==
    <<[kind |-> IF asJSON THEN "json" ELSE "message", msg |-> msg,
       name |-> name]>>

\* ---- add (add.go 34-84) -------------------------------------------------
AddCmd(c, e) ==
    IF e.client # "ok" THEN Outcome(<<>>, <<>>, ApiErr(e.client))
    ELSE
    LET found  == FindProject(e.projects, c.project)
        calls1 == IF c.project # <<>>
                  THEN <<ACall("GetProjects", 0, e.projects.err)>>
                  ELSE <<>>
    IN
    IF c.project # <<>> /\ found.kind # "ok"
    THEN Outcome(calls1, <<>>, found)
    ELSE
    LET projectID == IF c.project # <<>> THEN found.project.id ELSE 0
        lookup == c.section # <<>> /\ projectID # 0
        calls2 == IF lookup
                  THEN Append(calls1,
                           ACall("GetSections", projectID, e.sections.err))
                  ELSE calls1
    IN
    IF lookup /\ e.sections.err # "nil"
    THEN Outcome(calls2, <<>>, ApiErr(e.sections.err))
    ELSE
    LET sectionID == IF lookup
                     THEN AddSectionFrom(e.sections.list, c.section, 1)
                     ELSE 0
        params == [content |-> c.content,
                   priority |-> ConvertPriority(c.priority),
                   project_id |-> projectID,
                   section_id |-> sectionID]
        body == MarshalAddTaskParams(params)
        calls3 == Append(calls2, ACall("AddTask", body, e.write))
    IN
    IF e.write # "nil"
    THEN Outcome(calls3, <<>>, ApiErr(e.write))
    ELSE Outcome(calls3, WriteTask(c.asJSON, TaskOf(e.newID, body)), Nil)

\* ---- update (update.go 32-63) -------------------------------------------
UpdateCmd(c, e) ==
    IF e.client # "ok" THEN Outcome(<<>>, <<>>, ApiErr(e.client))
    ELSE
    LET params == [content |-> "", priority |-> ConvertPriority(c.priority)]
        body == MarshalUpdateTaskParams(params)
        calls1 == <<ACall("UpdateTask", [id |-> c.taskID, body |-> body],
                          e.write)>>
    IN
    IF e.write # "nil"
    THEN Outcome(calls1, <<>>, ApiErr(e.write))
    ELSE Outcome(calls1, WriteTask(c.asJSON, TaskOf(c.taskID, body)), Nil)

\* ---- move (sections.go 233-284) -----------------------------------------
MoveCmd(c, e) ==
    IF c.section = <<>> /\ c.project = <<>>
    THEN Outcome(<<>>, <<>>, [kind |-> "usage"])
    ELSE IF e.client # "ok" THEN Outcome(<<>>, <<>>, ApiErr(e.client))
    ELSE
    LET calls1 == IF c.section # <<>>
                  THEN <<ACall("GetTask", c.taskID, e.task.err)>>
                  ELSE <<>>
    IN
    IF c.section # <<>> /\ e.task.err # "nil"
    THEN Outcome(calls1, <<>>, Wrapped("failed to get task", e.task.err))
    ELSE
    LET calls2 == IF c.section # <<>>
                  THEN Append(calls1, ACall("GetSections",
                                  e.task.task.project_id, e.sections.err))
                  ELSE calls1
    IN
    IF c.section # <<>> /\ e.sections.err # "nil"
    THEN Outcome(calls2, <<>>,
                 Wrapped("failed to get sections", e.sections.err))
    ELSE
    LET sectionID == IF c.section # <<>>
                     THEN findSectionID(e.sections.list, c.section)
                     ELSE 0
    IN
    IF c.section # <<>> /\ sectionID = 0
    THEN Outcome(calls2, <<>>,
                 [kind |-> "section_not_found", name |-> c.section])
    ELSE
    LET found  == FindProject(e.projects, c.project)
        calls3 == IF c.project # <<>>
                  THEN Append(calls2,
                           ACall("GetProjects", 0, e.projects.err))
                  ELSE calls2
    IN
    IF c.project # <<>> /\ found.kind # "ok"
    THEN Outcome(calls3, <<>>, found)
    ELSE
    LET projectID == IF c.project # <<>> THEN found.project.id ELSE 0
        calls4 == Append(calls3,
                      ACall("MoveTask",
                            MoveArgs(c.taskID, sectionID, projectID),
                            e.write))
    IN
    IF e.write # "nil"
    THEN Outcome(calls4, <<>>, ApiErr(e.write))
    ELSE IF c.section # <<>>
    THEN Outcome(calls4,
                 WriteSuccess(c.asJSON, "Moved task to section", c.section),
                 Nil)
    ELSE Outcome(calls4,
                 WriteSuccess(c.asJSON, "Moved task to project", c.project),
                 Nil)

\* ---- delete (delete.go 28-60) -------------------------------------------
\* bufio.Reader.ReadString('\n') on the text waiting on standard input: the
\* text up to and including the first line feed, all of it when there is
\* none (the error of the end of input is dropped at line 47)
RECURSIVE ReadStringFrom(_, _)
ReadStringFrom(input, i) ==
    IF i > Len(input) THEN input
    ELSE IF input[i] = "\n" THEN SubSeq(input, 1, i)
    ELSE ReadStringFrom(input, i + 1)

ReadString(input) == ReadStringFrom(input, 1)

WhiteSpace == {" ", "\t", "\n", "\r"}

\* strings.TrimSpace
RECURSIVE TrimSpace(_)
TrimSpace(str) ==
    IF str = <<>> THEN str
    ELSE IF str[1] \in WhiteSpace THEN TrimSpace(Tail(str))
    ELSE IF str[Len(str)] \in WhiteSpace
    THEN TrimSpace(SubSeq(str, 1, Len(str) - 1))
    ELSE str

Confirmed_anyAnswer(input) ==
    ToLower(TrimSpace(ReadString(input))) # <<>>

\* line 48
Confirmed(input) ==
    ToLower(TrimSpace(ReadString(input))) = <<"y">>

\* the task content is not modelled: the messages carry no name
DeleteCmd(c, e) ==
    IF e.client # "ok" THEN Outcome(<<>>, <<>>, ApiErr(e.client))
    ELSE
    LET calls1 == <<ACall("GetTask", c.taskID, e.task.err)>>
    IN
    IF e.task.err # "nil"
    THEN Outcome(calls1, <<>>, ApiErr(e.task.err))
    ELSE
    LET ask    == ~c.force /\ ~c.asJSON
        prompt == IF ask
                  THEN <<[kind |-> "prompt", msg |-> "Delete task",
                          name |-> <<>>]>>
                  ELSE <<>>
    IN
    IF ask /\ ~Confirmed(c.stdin)
    THEN Outcome(calls1,
                 prompt \o WriteSuccess(c.asJSON, "Cancelled", <<>>), Nil)
    ELSE
    LET calls2 == Append(calls1, ACall("DeleteTask", c.taskID, e.write))
    IN
    IF e.write # "nil"
    THEN Outcome(calls2, prompt, ApiErr(e.write))
    ELSE Outcome(calls2,
                 prompt \o WriteSuccess(c.asJSON, "Deleted", <<>>), Nil)

\* ---- auth (sections.go 122-159) -----------------------------------------
\* reader.ReadString('\n') fails when the input ends before a line feed
ReadFails(input) == \A i \in 1..Len(input) : input[i] # "\n"

\* lines 126-137: the token of the argument, or of the line typed at the
\* prompt with the white space around it removed
AuthToken(c) ==
    IF c.hasArg THEN c.arg ELSE TrimSpace(ReadString(c.stdin))

\* config.Save (config.go 60-78) is the call "Save" with the token it
\* writes; e.write is the error of the write the command does
AuthCmd_saveFirst(c, e) ==
    LET tok == AuthToken(c)
        calls1 == <<ACall("Save", tok, e.write)>>
        calls2 == Append(calls1, ACall("GetProjects", tok, e.projects.err))
    IN
    IF e.projects.err # "nil"
    THEN Outcome(calls2, <<>>, Wrapped("invalid token", e.projects.err))
    ELSE Outcome(calls2, <<>>, Nil)

AuthCmd(c, e) ==
    LET prompt == IF c.hasArg THEN <<>>
                  ELSE <<[kind |-> "prompt", msg |-> "Enter token",
                          name |-> <<>>]>>
        tok  == AuthToken(c)
    IN
    IF ~c.hasArg /\ ReadFails(c.stdin)
    THEN Outcome(<<>>, prompt, Wrapped("failed to read token", "EOF"))
    ELSE IF tok = <<>>
    THEN Outcome(<<>>, prompt, ApiErr("token cannot be empty"))
    ELSE
    LET calls1 == <<ACall("GetProjects", tok, e.projects.err)>>
    IN
    IF e.projects.err # "nil"
    THEN Outcome(calls1, prompt, Wrapped("invalid token", e.projects.err))
    ELSE
    LET calls2 == Append(calls1, ACall("Save", tok, e.write))
    IN
    IF e.write # "nil"
    THEN Outcome(calls2, prompt, ApiErr(e.write))
    ELSE Outcome(calls2,
                 prompt \o WriteSuccess(c.asJSON,
                                        "Authenticated successfully", <<>>),
                 Nil)

\* ---- view (view.go 12-70) -----------------------------------------------
\* the modelled task has no description, no due date and no labels
ViewCmd(c, e) ==
    IF e.client # "ok" THEN Outcome(<<>>, <<>>, ApiErr(e.client))
    ELSE
    LET calls1 == <<ACall("GetTask", c.taskID, e.task.err)>>
    IN
    IF e.task.err # "nil"
    THEN Outcome(calls1, <<>>, ApiErr(e.task.err))
    ELSE
    LET task == e.task.task
    IN
    IF c.asJSON
    THEN Outcome(calls1, <<[kind |-> "json", task |-> task]>>, Nil)
    ELSE
    LET lines == <<[kind |-> "ID", v |-> task.id],
                   [kind |-> "Content", v |-> task.id]>>
                 \o (IF task.priority > 1
                     THEN <<[kind |-> "Priority", v |-> 5 - task.priority]>>
                     ELSE <<>>)
                 \o <<[kind |-> "URL", v |-> task.id]>>
        calls2 == Append(calls1,
                      ACall("GetComments", c.taskID, e.comments.err))
        shown == IF e.comments.err = "nil" /\ e.comments.n > 0
                 THEN <<[kind |-> "Comments", v |-> e.comments.n]>>
                      \o [i \in 1..e.comments.n |->
                              [kind |-> "comment", v |-> i]]
                 ELSE <<>>
    IN  Outcome(calls2, lines \o shown, Nil)

\* ---- inputs -------------------------------------------------------------
SectionQueries ==
    { <<>>, <<"d", "o", "n", "e">>, <<"N", "o", "p", "e">> }

ProjectQueries ==
    { <<>>, <<"w", "o", "r", "k">>, <<"I", "n", "b", "o", "x">> }

UserPriorities == 0..4

TaskID == 7

AddCmds ==
    { [name |-> "add", content |-> "Buy milk", priority |-> p,
       project |-> pr, section |-> se, asJSON |-> j] :
        p \in UserPriorities, pr \in ProjectQueries, se \in SectionQueries,
        j \in BOOLEAN }

UpdateCmds ==
    { [name |-> "update", taskID |-> TaskID, priority |-> p, asJSON |-> j] :
        p \in UserPriorities, j \in BOOLEAN }

MoveCmds ==
    { [name |-> "move", taskID |-> TaskID, project |-> pr, section |-> se,
       asJSON |-> j] :
        pr \in ProjectQueries, se \in SectionQueries, j \in BOOLEAN }

ViewCmds ==
    { [name |-> "view", taskID |-> TaskID, asJSON |-> j] : j \in BOOLEAN }

\* what the user typed at the prompt
Answers ==
    { <<>>, <<"\n">>, <<"y", "\n">>, <<"Y", "\r", "\n">>, <<"y">>,
      <<" ", "y", " ", "\n">>, <<"n", "\n">>, <<"y", "e", "s", "\n">>,
      <<"\n", "y", "\n">>, <<"y", "\n", "n", "\n">> }

DeleteCmds ==
    { [name |-> "delete", taskID |-> TaskID, force |-> f, asJSON |-> j,
       stdin |-> a] :
        f \in BOOLEAN, j \in BOOLEAN, a \in Answers }

TokenArgs == { <<>>, <<" ">>, <<"t", "k">> }

TokenLines ==
    { <<>>, <<"\n">>, <<" ", "\n">>, <<"t", "k">>, <<"t", "k", "\n">>,
      <<" ", "t", "k", "\r", "\n">> }

AuthCmds ==
    { [name |-> "auth", hasArg |-> TRUE, arg |-> a, stdin |-> <<>>,
       asJSON |-> j] : a \in TokenArgs, j \in BOOLEAN }
      \cup
    { [name |-> "auth", hasArg |-> FALSE, arg |-> <<>>, stdin |-> l,
       asJSON |-> j] : l \in TokenLines, j \in BOOLEAN }

Cmds ==
    AddCmds \cup UpdateCmds \cup MoveCmds \cup ViewCmds \cup DeleteCmds
        \cup AuthCmds

CmdProjectsResults ==
    { [err |-> "api", projects |-> <<>>],
      [err |-> "nil",
       projects |-> <<[id |-> 1, name |-> <<"H", "o", "m", "e">>]>>],
      [err |-> "nil",
       projects |-> <<[id |-> 1, name |-> <<"H", "o", "m", "e">>],
                      [id |-> 2, name |-> <<"W", "o", "r", "k">>]>>] }

SectionsResults ==
    { [err |-> "api", list |-> <<>>],
      [err |-> "nil", list |-> <<>>],
      [err |-> "nil",
       list |-> <<[id |-> 1, name |-> <<"T", "o", " ", "D", "o">>],
                  [id |-> 2, name |-> <<"D", "o", "n", "e">>]>>],
      [err |-> "nil",
       list |-> <<[id |-> 1, name |-> <<"U", "n", "d", "o", "n", "e">>],
                  [id |-> 2, name |-> <<"D", "o", "n", "e">>]>>] }

TaskResults ==
    { [err |-> "api", task |-> [id |-> 0, project_id |-> 0, priority |-> 0]] }
        \cup { [err |-> "nil",
                task |-> [id |-> TaskID, project_id |-> 2, priority |-> p]] :
                 p \in 1..4 }

\* longest comment list of the viewed task
MaxComments == 2

CommentsResults ==
    { [err |-> "api", n |-> 0] }
        \cup { [err |-> "nil", n |-> n] : n \in {0, MaxComments} }

Envs ==
    { [client |-> "ok", projects |-> pr, sections |-> se, task |-> t,
       comments |-> co, write |-> w, newID |-> 9] :
        pr \in CmdProjectsResults, se \in SectionsResults, t \in TaskResults,
        co \in CommentsResults, w \in {"nil", "api"} }
      \cup
    { [client |-> "no_token",
       projects |-> [err |-> "api", projects |-> <<>>],
       sections |-> [err |-> "api", list |-> <<>>],
       task |-> [err |-> "api",
                 task |-> [id |-> 0, project_id |-> 0, priority |-> 0]],
       comments |-> [err |-> "api", n |-> 0],
       write |-> "api", newID |-> 9] }

CmdInit ==
    /\ ReqInit
    /\ OneClient
    /\ FanIdle
    /\ FnIdle
    /\ DbgIdle
    /\ WTIdle
    /\ cmd \in Cmds
    /\ env \in Envs
    /\ calls = <<>>
    /\ stdout = <<>>
    /\ cret = NoRet

Finish(o) ==
    /\ calls' = o.calls
    /\ stdout' = o.stdout
    /\ cret' = o.ret
    /\ UNCHANGED <<cmd, env, rvars, fvars, pvars, dvars, wvars>>

RunAdd    == cmd.name = "add" /\ cret = NoRet /\ Finish(AddCmd(cmd, env))

RunUpdate == cmd.name = "update" /\ cret = NoRet /\ Finish(UpdateCmd(cmd, env))

RunMove   == cmd.name = "move" /\ cret = NoRet /\ Finish(MoveCmd(cmd, env))

RunView   == cmd.name = "view" /\ cret = NoRet /\ Finish(ViewCmd(cmd, env))

RunDelete ==
    cmd.name = "delete" /\ cret = NoRet /\ Finish(DeleteCmd(cmd, env))

RunAuth ==
    cmd.name = "auth" /\ cret = NoRet /\ Finish(AuthCmd(cmd, env))

CmdNext ==
    \/ RunAuth
    \/ RunDelete
    \/ RunAdd
    \/ RunUpdate
    \/ RunMove
    \/ RunView

SpecCmd == CmdInit /\ [][CmdNext]_vars

\* ========================================================================
\* requestCtx with and without debug tracing (client.go 57-60, 68-182)
\* ========================================================================
\* The two calls share the context (cancelled) and receive the same events.
\* Each operator below gives the call after one step of requestCtx; a call
\* that is not at that step is left as it is.

\* fmt.Fprintf(os.Stderr, ...) guarded by c.debug (lines 132, 138, 151, 162)
Trace(r, dbg, line) ==
    IF dbg THEN [r EXCEPT !.stderr = Append(@, line)] ELSE r

Done(r, res) == [r EXCEPT !.pc = "done", !.result = res]

Logged(r, entry) == [r EXCEPT !.log = Append(@, entry)]

\* lines 68-97
RunCall(r, m, d, v) ==
    IF r.pc # "idle" THEN r
    ELSE LET r1 == [r EXCEPT !.method = m, !.data = d, !.valid = v,
                             !.attempt = 0]
         IN  IF m # "GET" /\ d = "unmarshalable"
             THEN Done(r1, [NoResult EXCEPT !.kind = "marshal"])
             ELSE [r1 EXCEPT !.pc = "send"]

RunSelectWait(r) ==
    IF r.lastErr.kind = "retryAfter" THEN r.lastErr.after
    ELSE 2 ^ (r.attempt - 1)

\* lines 98-116, case <-ctx.Done()
RunWaitCancelled(r) ==
    IF r.pc = "select" /\ CtxDoneReady
    THEN Done(r, [NoResult EXCEPT !.kind = "ctx", !.cause = "ctx"])
    ELSE r

\* lines 98-116, case <-time.After(...)
RunWaitElapsed(r) ==
    IF r.pc = "select" /\ TimerCanFire(RunSelectWait(r))
    THEN [r EXCEPT !.pc = "send",
                   !.waits = Append(@, [secs |-> RunSelectWait(r),
                                        backoff |->
                                          r.lastErr.kind # "retryAfter"])]
    ELSE r

\* lines 118-142
RunSend(r, dbg) ==
    IF r.pc # "send" THEN r
    ELSE IF ~r.valid
    THEN Done(r, [NoResult EXCEPT !.kind = "create"])
    ELSE LET r1 == Trace([r EXCEPT !.doCalls = @ + 1], dbg,
                         [line |-> "request", method |-> r.method])
         IN  IF DoAborts
             THEN Trace(Done(Logged(r1, [outcome |-> "error", status |-> 0,
                                         ra |-> <<>>, after |-> 0,
                                         body |-> ""]),
                             [NoResult EXCEPT !.kind = "network",
                                              !.cause = "ctx"]),
                        dbg, [line |-> "error"])
             ELSE [r1 EXCEPT !.pc = "inflight"]

\* lines 136-142
RunDoError(r, dbg) ==
    IF r.pc # "inflight" THEN r
    ELSE Trace(Done(Logged(r, [outcome |-> "error", status |-> 0,
                               ra |-> <<>>, after |-> 0, body |-> ""]),
                    [NoResult EXCEPT !.kind = "network",
                        !.cause = IF DoAborts THEN "ctx" ELSE "io"]),
               dbg, [line |-> "error"])

\* lines 144-148: the return precedes the debug print of line 151
RunReadError(r) ==
    IF r.pc # "inflight" \/ DoAborts THEN r
    ELSE Done(Logged(r, [outcome |-> "readerror", status |-> 0,
                         ra |-> <<>>, after |-> 0, body |-> ""]),
              [NoResult EXCEPT !.kind = "network", !.cause = "io"])

\* lines 168-178
RunClassify(r, status, body) ==
    Done(Logged(r, [outcome |-> "response", status |-> status, ra |-> <<>>,
                    after |-> 0, body |-> body]),
         Classify(status, body))

RunRetry_continueInDebugBlock(r, dbg, status, ra, body) ==
    IF dbg
    THEN LET r1 == Logged([r EXCEPT !.lastErr = [kind |-> "retryAfter",
                                                 after |-> RetryWait(ra)],
                                    !.attempt = @ + 1],
                          [outcome |-> "response", status |-> status,
                           ra |-> ra, after |-> RetryWait(ra), body |-> ""])
         IN  Trace([r1 EXCEPT !.pc = "select"], dbg,
                   [line |-> "rate limited", wait |-> RetryWait(ra)])
    ELSE RunClassify(r, status, body)

\* lines 154-165, then attempt++ and the loop condition: the continue of
\* line 164 stands after the debug block, not inside it
RunRetry(r, dbg, status, ra, body) ==
    LET r1 == Logged([r EXCEPT !.lastErr = [kind |-> "retryAfter",
                                            after |-> RetryWait(ra)],
                               !.attempt = @ + 1],
                     [outcome |-> "response", status |-> status, ra |-> ra,
                      after |-> RetryWait(ra), body |-> ""])
        r2 == Trace(r1, dbg,
                    [line |-> "rate limited", wait |-> RetryWait(ra)])
    IN  IF r.attempt + 1 <= maxRetries
        THEN [r2 EXCEPT !.pc = "select"]
        ELSE Done(r2, [NoResult EXCEPT !.kind = "max_retries",
                                       !.cause = "retryAfter"])

\* lines 144-181
RunRespond(r, dbg, status, ra, body) ==
    IF r.pc # "inflight" \/ DoAborts THEN r
    ELSE LET r1 == Trace(r, dbg, [line |-> "status", status |-> status])
         IN  IF ShouldRetry(status, r.attempt)
             THEN RunRetry(r1, dbg, status, ra, body)
             ELSE RunClassify(r1, status, body)

DebugInit ==
    /\ ReqInit
    /\ OneClient
    /\ FanIdle
    /\ FnIdle
    /\ CmdIdle
    /\ DbgIdle
    /\ WTIdle

\* both calls take the step, each with its own debug flag
Both(d, q) ==
    /\ <<d, q>> # <<dbgRun, quietRun>>
    /\ dbgRun' = d
    /\ quietRun' = q
    /\ UNCHANGED <<rvars, fvars, pvars, cvars, wvars>>

DCall(m, d, v) == Both(RunCall(dbgRun, m, d, v), RunCall(quietRun, m, d, v))

DCancel ==
    /\ dbgRun.pc # "done" \/ quietRun.pc # "done"
    /\ ~cancelled
    /\ cancelled' = TRUE
    /\ UNCHANGED <<pc, method, data, valid, attempt, lastErr, result,
                   doCalls, log, waits, token, sent, fvars, ovars>>

DWaitCancelled == Both(RunWaitCancelled(dbgRun), RunWaitCancelled(quietRun))

DWaitElapsed == Both(RunWaitElapsed(dbgRun), RunWaitElapsed(quietRun))

DSend == Both(RunSend(dbgRun, TRUE), RunSend(quietRun, FALSE))

DDoError == Both(RunDoError(dbgRun, TRUE), RunDoError(quietRun, FALSE))

DReadError == Both(RunReadError(dbgRun), RunReadError(quietRun))

DRespond(status, ra, body) ==
    Both(RunRespond(dbgRun, TRUE, status, ra, body),
         RunRespond(quietRun, FALSE, status, ra, body))

DebugNext ==
    \/ \E m \in Methods, d \in DataKinds, v \in BOOLEAN : DCall(m, d, v)
    \/ DCancel
    \/ DWaitCancelled
    \/ DWaitElapsed
    \/ DSend
    \/ DDoError
    \/ DReadError
    \/ \E s \in Statuses, ra \in RetryAfterVals, b \in Bodies :
          DRespond(s, ra, b)

SpecDebug == DebugInit /\ [][DebugNext]_vars

\* ========================================================================
\* Formatter.WriteTasks (part_003 138-196)
\* ========================================================================
\* A task is [id, parent, childOrder]: IDs are positive numbers and parent
\* 0 stands for the empty ParentID. The list has unique IDs, as the API
\* returns it; a task is referred to by its index in the list.

\* longest task list handed to WriteTasks
MaxList == 3

\* an ID that no task of the list has
AbsentID == 99

ChildOrders == {1, 2}

\* The position of a task in the list has no effect on the output (the
\* maps are keyed by ID and every slice is sorted), so one list stands for
\* all its permutations: the one with the child orders ascending.
TaskLists ==
    UNION { { [i \in 1..n |-> [id |-> i, parent |-> par[i],
                               childOrder |-> ord[i]]] :
                par \in [1..n -> (0..n) \cup {AbsentID}],
                ord \in { o \in [1..n -> ChildOrders] :
                            \A i \in 1..(n - 1) : o[i] <= o[i + 1] } } :
            n \in 0..MaxList }

WTInit ==
    /\ ReqInit
    /\ OneClient
    /\ FanIdle
    /\ FnIdle
    /\ CmdIdle
    /\ DbgIdle
    /\ wtPc = "start"
    /\ wtTasks \in TaskLists
    /\ wtJSON \in BOOLEAN
    /\ roots = <<>>
    /\ childrenMap = <<>>
    /\ stack = <<>>
    /\ rootIdx = 1
    /\ wtOut = <<>>

\* lines 149-158: taskMap, as the set of its keys
taskMap(ts) == {ts[i].id : i \in 1..Len(ts)}

\* lines 149-158: the keys of childrenMap and, per key, its children in list
\* order (as a set of indices; the order is fixed by sortTasks below)
ChildKeys(ts) == {ts[i].parent : i \in 1..Len(ts)} \ {0}

ChildrenOf(ts, id) == {i \in 1..Len(ts) : ts[i].parent = id}

IsRoot_parentless(ts, i) ==
    ts[i].parent = 0

\* lines 160-168
IsRoot(ts, i) ==
    \/ ts[i].parent = 0
    \/ ts[i].parent \notin taskMap(ts)

\* lines 181-185: sort.Slice orders by ChildOrder and is not stable, so
\* elements with equal ChildOrder come out in any order
sortTasks(ts, S) ==
    { q \in [1..Cardinality(S) -> S] :
        /\ \A a, b \in 1..Cardinality(S) : a # b => q[a] # q[b]
        /\ \A a, b \in 1..Cardinality(S) :
               a < b => ~(ts[q[b]].childOrder < ts[q[a]].childOrder) }

\* lines 139-175: JSON mode, the empty list, or the maps and the sorted
\* roots
WTBuild ==
    /\ wtPc = "start"
    /\ IF wtJSON
       THEN /\ wtOut' = <<[kind |-> "json", n |-> Len(wtTasks)]>>
            /\ wtPc' = "done"
            /\ UNCHANGED <<roots, childrenMap>>
       ELSE IF Len(wtTasks) = 0
       THEN /\ wtOut' = <<[kind |-> "No tasks found.", n |-> 0]>>
            /\ wtPc' = "done"
            /\ UNCHANGED <<roots, childrenMap>>
       ELSE /\ roots' \in sortTasks(wtTasks,
                            {i \in 1..Len(wtTasks) : IsRoot(wtTasks, i)})
            /\ childrenMap' \in
                  [ChildKeys(wtTasks) ->
                      UNION {sortTasks(wtTasks, ChildrenOf(wtTasks, id)) :
                                id \in ChildKeys(wtTasks)}]
            /\ \A id \in ChildKeys(wtTasks) :
                  childrenMap'[id] \in
                      sortTasks(wtTasks, ChildrenOf(wtTasks, id))
            /\ wtPc' = "print"
            /\ UNCHANGED wtOut
    /\ UNCHANGED <<wtTasks, wtJSON, stack, rootIdx, rvars, fvars, pvars,
                   cvars, dvars>>

Line_oneSpacePerLevel(i, level) ==
    [kind |-> "task", id |-> wtTasks[i].id, indent |-> level]

\* line 188-189: strings.Repeat("  ", level) and the task line
Line(i, level) ==
    [kind |-> "task", id |-> wtTasks[i].id, indent |-> 2 * level]

\* line 191: the children slice of the task, empty when the key is absent
Children(i) ==
    IF wtTasks[i].id \in DOMAIN childrenMap
    THEN childrenMap[wtTasks[i].id] ELSE <<>>

\* lines 173-175: the for loop calls printTaskRecursive(root, 0, ...)
WTPrintRoot ==
    /\ wtPc = "print"
    /\ stack = <<>>
    /\ rootIdx <= Len(roots)
    /\ wtOut' = Append(wtOut, Line(roots[rootIdx], 0))
    /\ stack' = <<[task |-> roots[rootIdx], next |-> 1]>>
    /\ rootIdx' = rootIdx + 1
    /\ UNCHANGED <<wtPc, wtTasks, wtJSON, roots, childrenMap, rvars, fvars,
                   pvars, cvars, dvars>>

\* lines 191-195: the call in progress calls itself on its next child
WTPrintChild ==
    /\ wtPc = "print"
    /\ stack # <<>>
    /\ LET top == stack[Len(stack)]
       IN  /\ top.next <= Len(Children(top.task))
           /\ wtOut' = Append(wtOut,
                          Line(Children(top.task)[top.next], Len(stack)))
           /\ stack' = Append([stack EXCEPT ![Len(stack)].next = @ + 1],
                              [task |-> Children(top.task)[top.next],
                               next |-> 1])
    /\ UNCHANGED <<wtPc, wtTasks, wtJSON, roots, childrenMap, rootIdx,
                   rvars, fvars, pvars, cvars, dvars>>

\* line 196: the call in progress has no child left and returns
WTPop ==
    /\ wtPc = "print"
    /\ stack # <<>>
    /\ stack[Len(stack)].next > Len(Children(stack[Len(stack)].task))
    /\ stack' = SubSeq(stack, 1, Len(stack) - 1)
    /\ UNCHANGED <<wtPc, wtTasks, wtJSON, roots, childrenMap, rootIdx,
                   wtOut, rvars, fvars, pvars, cvars, dvars>>

\* line 177: return nil
WTReturn ==
    /\ wtPc = "print"
    /\ stack = <<>>
    /\ rootIdx > Len(roots)
    /\ wtPc' = "done"
    /\ UNCHANGED <<wtTasks, wtJSON, roots, childrenMap, stack, rootIdx,
                   wtOut, rvars, fvars, pvars, cvars, dvars>>

WTNext ==
    \/ WTBuild
    \/ WTPrintRoot
    \/ WTPrintChild
    \/ WTPop
    \/ WTReturn

SpecWT == WTInit /\ [][WTNext]_vars

\* WriteTasks runs on its own goroutine without blocking calls: it takes a
\* step whenever one is possible
SpecWTFair == SpecWT /\ WF_vars(WTNext)

\* ========================================================================
\* Properties of requestCtx (checked under Spec)
\* ========================================================================
\* What each Retry-After value of RetryAfterVals denotes when it is an
\* integer, written out value by value.
HeaderSeconds ==
    (<<"0">> :> 0) @@ (<<"2">> :> 2) @@ (<<"1", "0">> :> 10)
        @@ (<<"-", "1">> :> (0 - 1))

ResponseStatuses ==
    [i \in 1..Len(log) |->
        IF log[i].outcome = "response" THEN log[i].status ELSE 0]

\* C1: when the server answered 429, 429, 200 to one call, the call
\* returned success after exactly 3 Do calls (2 retries), and the wait
\* before each retry was the Retry-After value of the 429 just before it.
C1_TwoRetriesThenSuccess ==
    (pc = "done" /\ ResponseStatuses = <<429, 429, 200>>) =>
        /\ result.kind = "ok"
        /\ doCalls = 3
        /\ Len(waits) = 2
        /\ \A i \in 1..2 :
              /\ ~waits[i].backoff
              /\ log[i].ra \in DOMAIN HeaderSeconds =>
                    waits[i].secs = HeaderSeconds[log[i].ra]

C1_Witness ==
    /\ pc = "done"
    /\ ResponseStatuses = <<429, 429, 200>>
    /\ log[1].ra = <<"2">>
    /\ log[2].ra = <<"1", "0">>
    /\ waits = <<[secs |-> 2, backoff |-> FALSE],
                 [secs |-> 10, backoff |-> FALSE]>>
    /\ result.kind = "ok"

\* C2: when the server answered 429 to every attempt, the call made 4 Do
\* calls and returned the "max retries exceeded" failure wrapping the last
\* retryAfterError.
C2_RetriesExceeded ==
    (pc = "done" /\ ResponseStatuses = <<429, 429, 429, 429>>) =>
        /\ doCalls = 4
        /\ result.kind = "max_retries"
        /\ result.cause = "retryAfter"

\* C3: a call makes at most maxRetries + 1 Do calls, and every Do call
\* after the first follows a 429 response to the one before it.
C3_AtMostFourAttempts ==
    /\ doCalls <= 4
    /\ \A i \in 2..doCalls :
          /\ i - 1 <= Len(log)
          /\ log[i - 1].outcome = "response"
          /\ log[i - 1].status = 429

C3_Witness ==
    /\ doCalls = 4
    /\ pc = "inflight"

\* C4: an attempt that ends in a network-level error, or in a status >= 400
\* other than 429, is the last attempt of the call: the call has returned a
\* failure and made no further Do call.
C4_OnlyRateLimitRetried ==
    \A i \in 1..Len(log) :
        ( \/ log[i].outcome \in {"error", "readerror"}
          \/ /\ log[i].outcome = "response"
             /\ log[i].status >= 400
             /\ log[i].status # 429 ) =>
            /\ i = Len(log)
            /\ doCalls = i
            /\ pc = "done"
            /\ result.kind \in {"network", "auth", "api"}

C4_Witness ==
    /\ pc = "done"
    /\ Len(log) = 2
    /\ log[2].outcome = "error"
    /\ result.cause = "io"
    /\ attempt = 1

\* C5: the response the call ends on is classified by its status: below
\* 400 the body is returned without error, 401 and 403 give the
\* authentication failure, any other status >= 400 gives the generic API
\* failure with that status and body.
C5_Classification ==
    LET n == Len(log) IN
    ( /\ pc = "done"
      /\ n > 0
      /\ log[n].outcome = "response"
      /\ (log[n].status # 429 \/ n = 4) ) =>
        /\ result.status = log[n].status
        /\ result.body = log[n].body
        /\ log[n].status < 400 => result.kind = "ok"
        /\ log[n].status \in {401, 403} => result.kind = "auth"
        /\ (log[n].status >= 400 /\ log[n].status \notin {401, 403}) =>
              result.kind = "api"

C5_Witness ==
    /\ pc = "done"
    /\ Len(log) = 2
    /\ log[2].status = 403
    /\ result = [kind |-> "auth", status |-> 403, body |-> "rate limited",
                 cause |-> "api"]

C7_RetryAfterOrFallback ==
    \A i \in 1..Len(log) :
        (log[i].outcome = "response" /\ log[i].status = 429 /\ i <= 3) =>
            /\ log[i].after =
                  IF log[i].ra \in DOMAIN HeaderSeconds
                  THEN HeaderSeconds[log[i].ra] ELSE 5
            /\ i <= Len(waits) =>
                  waits[i] = [secs |-> log[i].after, backoff |-> FALSE]
            /\ (i = Len(log) /\ pc = "done") => result.kind = "ctx"

C7_Witness ==
    /\ Len(log) = 2
    /\ log[1].ra = <<"2", "s">>
    /\ log[2].ra = <<>>
    /\ Len(waits) = 2
    /\ waits[1].secs = 5
    /\ waits[2].secs = 5
    /\ pc = "inflight"

\* C21: every delay between two attempts is the wait of the 429 response
\* to the attempt just before it (its integer Retry-After, else 5 s), one
\* delay per retry; the exponential backoff (1 s, 2 s, 4 s) is never the
\* delay, and the call never waits without a retryAfterError in lastErr.
C21_OnlyRetryAfterDelay ==
    /\ Len(waits) <= doCalls
    /\ doCalls <= Len(waits) + 1
    /\ \A i \in 1..Len(waits) :
          /\ log[i].outcome = "response"
          /\ log[i].status = 429
          /\ ~waits[i].backoff
          /\ waits[i].secs =
                IF log[i].ra \in DOMAIN HeaderSeconds
                THEN HeaderSeconds[log[i].ra] ELSE 5
    /\ pc = "select" =>
          /\ lastErr.kind = "retryAfter"
          /\ lastErr.after = log[Len(log)].after

C21_Witness ==
    /\ pc = "done"
    /\ doCalls = 4
    /\ log[1].ra = <<"1", "0">>
    /\ log[2].ra = <<>>
    /\ log[3].ra = <<"0">>
    /\ waits = <<[secs |-> 10, backoff |-> FALSE],
                 [secs |-> 5, backoff |-> FALSE],
                 [secs |-> 0, backoff |-> FALSE]>>

\* ========================================================================
\* Properties of the comment fan-out (checked under SpecFan)
\* ========================================================================
Failed == {t \in 1..ntasks : wstate[t] = "failed"}

\* C8: whatever the number of tasks and the interleaving of the workers,
\* at most 5 comment fetches are in flight at the same time.
C8_AtMostFiveInFlight ==
    Cardinality(InFlight) <= 5

C8_Witness ==
    /\ ntasks = 7
    /\ Cardinality(InFlight) = 5
    /\ fpc = "dispatch"
    /\ nextTask = 6

\* C9: once a fetch has failed, the error the errgroup holds is the error
\* of the fetch that failed first, later failures do not replace it, and
\* it is the error runTasks returns.
C9_FirstErrorReturned ==
    /\ Failed # {} => (firstErr # NoFail /\ gerr = firstErr)
    /\ (fpc = "done" /\ Failed # {}) => ret = firstErr

C9_Witness ==
    /\ fpc = "done"
    /\ ret = [kind |-> "api", task |-> 2]
    /\ Cardinality(Failed) >= 3
    /\ wstate[1] = "ok"

\* C10: when a fetch of the fan-out has failed, runTasks never reads the
\* result mapping and prints nothing, and it returns an error, whatever
\* entries the other workers wrote.
C10_NoPartialOutput ==
    Failed # {} =>
        /\ mapReads = 0
        /\ printed = <<>>
        /\ fpc \in {"dispatch", "wait", "done"}
        /\ fpc = "done" => ret.kind \in {"api", "ctx"}

C10_Witness ==
    /\ ntasks = 7
    /\ fpc = "done"
    /\ ret = [kind |-> "api", task |-> 3]
    /\ DOMAIN commentsMap = {1, 2, 4}
    /\ printed = <<>>

Writing == {t \in 1..ntasks : wstate[t] = "write"}

Running == {t \in 1..ntasks : wstate[t] \in {"fetch", "lock", "write"}}

\* C11: at most one worker is inside the write to commentsMap at a time,
\* and it is the holder of the mutex; runTasks reads commentsMap only once
\* every worker has finished.
C11_MutexAndReadAfterJoin ==
    /\ Cardinality(Writing) <= 1
    /\ \A t \in Writing : mu = t
    /\ (mapReads > 0 \/ fpc = "print") =>
          (Running = {} /\ nextTask = ntasks + 1)

C11_Witness ==
    /\ Cardinality(Writing) = 1
    /\ Cardinality({t \in 1..ntasks : wstate[t] = "lock"}) = 4
    /\ DOMAIN commentsMap = {}

C18_HeadersOnEveryAttempt ==
    /\ Len(sent) = doCalls
    /\ \A i \in 1..Len(sent) :
          /\ Len(sent[i].Authorization) = 7 + Len(token)
          /\ SubSeq(sent[i].Authorization, 1, 7)
                = <<"B", "e", "a", "r", "e", "r", " ">>
          /\ SubSeq(sent[i].Authorization, 8, 7 + Len(token)) = token
          /\ sent[i].ContentType = "application/json"

C18_Witness ==
    /\ pc = "done"
    /\ result.kind = "ok"
    /\ doCalls = 4
    /\ token = <<"s", "e", "c", "r", "e", "t">>
    /\ Len(sent) = 4
    /\ sent[4].Authorization
          = <<"B", "e", "a", "r", "e", "r", " ", "s", "e", "c", "r", "e", "t">>

\* C28: every attempt of one call sends the method, the URL with its query
\* string and the whole JSON body of the first attempt: a retry never sends
\* an empty or shortened body.
C28_SameRequestOnRetry ==
    \A i \in 1..Len(sent) :
        /\ sent[i].method = method
        /\ sent[i].method = sent[1].method
        /\ sent[i].query = sent[1].query
        /\ sent[i].hasBody = sent[1].hasBody
        /\ sent[i].body = sent[1].body
        /\ (method = "POST" /\ data = "value") =>
              /\ sent[i].hasBody
              /\ sent[i].body =
                    <<[key |-> "filter",
                       value |-> <<"p", "1", " ", "&", " ",
                                   "t", "o", "d", "a", "y">>],
                      [key |-> "project_id", value |-> <<>>]>>
        /\ (method = "GET" /\ data = "value") =>
              /\ ~sent[i].hasBody
              /\ sent[i].query =
                    [present |-> TRUE,
                     pairs |-> <<[key |-> "filter",
                                  value |-> <<"p", "1", "+", "%", "2", "6",
                                              "+", "t", "o", "d", "a",
                                              "y">>]>>]
        /\ data # "value" =>
              /\ ~sent[i].hasBody
              /\ sent[i].body = <<>>
              /\ sent[i].query = NoQuery

C28_Witness ==
    /\ pc = "done"
    /\ method = "POST"
    /\ data = "value"
    /\ doCalls = 4
    /\ Len(sent) = 4
    /\ Len(sent[4].body) = 2
    /\ sent[4].body = sent[1].body

\* the fan-out joined without error: g.Wait returned nil
JoinedOk ==
    \/ fpc = "print"
    \/ /\ fpc = "done"
       /\ ret = NoFail
       /\ printed # <<>>
       /\ printed[1].kind = "task"

\* C29: when the fan-out returns without error, commentsMap has an entry
\* for every task of the list and for nothing else, each holding the
\* comments of that task, whatever the interleaving and the number of tasks;
\* the lines printed carry those comments.
C29_CompleteMapping ==
    JoinedOk =>
        /\ ntasks >= 1
        /\ DOMAIN commentsMap = 1..ntasks
        /\ \A t \in 1..ntasks :
              /\ commentsMap[t] = CommentsOf(t)
              /\ Len(commentsMap[t]) = t % 3
              /\ \A n \in 1..Len(commentsMap[t]) : commentsMap[t][n].task = t
        /\ \A i \in 1..Len(printed) :
              printed[i].comments = commentsMap[i]

C29_Witness ==
    /\ fpc = "done"
    /\ ret = NoFail
    /\ ntasks = 6
    /\ Len(printed) = 6
    /\ DOMAIN commentsMap = 1..6
    /\ Len(commentsMap[5]) = 2

\* ========================================================================
\* Properties of requestCtx with and without debug (checked under SpecDebug)
\* ========================================================================
\* a call without what it wrote to os.Stderr
Core(r) ==
    [pc |-> r.pc, method |-> r.method, data |-> r.data, valid |-> r.valid,
     attempt |-> r.attempt, lastErr |-> r.lastErr, result |-> r.result,
     doCalls |-> r.doCalls, log |-> r.log, waits |-> r.waits]

\* C19: given the same request and the same server responses, the call with
\* debug on and the call with debug off are at the same point, have issued
\* the same attempts, have waited the same durations and return the same
\* value or failure; only the debug call writes to os.Stderr.
C19_DebugDoesNotInterfere ==
    /\ Core(dbgRun) = Core(quietRun)
    /\ quietRun.stderr = <<>>
    /\ dbgRun.doCalls > 0 => dbgRun.stderr # <<>>

C19_Witness ==
    /\ dbgRun.pc = "done"
    /\ quietRun.pc = "done"
    /\ dbgRun.result.kind = "ok"
    /\ quietRun.result = dbgRun.result
    /\ dbgRun.doCalls = 3
    /\ quietRun.waits = <<[secs |-> 2, backoff |-> FALSE],
                          [secs |-> 5, backoff |-> FALSE]>>
    /\ Len(dbgRun.stderr) = 8
    /\ quietRun.stderr = <<>>

\* ========================================================================
\* Properties of the pure functions (checked under SpecFn)
\* ========================================================================
\* name, lowercased, contains q, lowercased, at some offset
MatchesCI(name, q) ==
    \E k \in 0..Len(name) :
        /\ k + Len(q) <= Len(name)
        /\ \A j \in 1..Len(q) : ToLower(name)[k + j] = ToLower(q)[j]

\* C13: FindProject returns the element of lowest index whose lowercased
\* name contains the lowercased query, and the not-found failure naming the
\* query when no element matches; with "Work" at index 0 and
\* "Work Projects" at index 2 the query "work" returns the element at
\* index 0.
C13_FirstMatch ==
    (fin.fn = "FindProject" /\ fout # NoOut /\ fin.got.err = "nil") =>
        LET L == fin.got.projects
            M == {i \in 1..Len(L) : MatchesCI(L[i].name, fin.name)}
        IN  /\ M = {} => fout = [kind |-> "not_found", name |-> fin.name]
            /\ M # {} =>
                  /\ fout.kind = "ok"
                  /\ fout.project.id \in M
                  /\ \A i \in M : fout.project.id <= i
                  /\ fout.project = L[fout.project.id]
            /\ ( /\ Len(L) = 3
                 /\ L[1].name = <<"W", "o", "r", "k">>
                 /\ Len(L[3].name) = 13
                 /\ fin.name = <<"w", "o", "r", "k">> ) => fout.project.id = 1

C13_Witness ==
    /\ fin.fn = "FindProject"
    /\ fin.got.err = "nil"
    /\ Len(fin.got.projects) = 3
    /\ fin.got.projects[1].name = <<"W", "o", "r", "k">>
    /\ fin.got.projects[2].name = <<"H", "o", "m", "e">>
    /\ Len(fin.got.projects[3].name) = 13
    /\ fin.name = <<"W", "O", "R", "K">>
    /\ fout = [kind |-> "ok", project |-> [id |-> 1, name |-> <<"W", "o", "r", "k">>]]

\* the typed value of a well-formed item, written out
TypedItem(j) ==
    IF j.t = "null" THEN [id |-> "", name |-> ""]
    ELSE [id |-> j.fields["id"].v,
          name |-> IF "name" \in DOMAIN j.fields THEN j.fields["name"].v
                   ELSE ""]

WellFormed(items) ==
    \A i \in 1..Len(items) :
        \/ items[i].t = "null"
        \/ /\ items[i].t = "object"
           /\ "id" \in DOMAIN items[i].fields
           /\ items[i].fields["id"].t = "string"

IsBare(b) == b.t = "array"

IsEnvelope(b) ==
    /\ b.t = "object"
    /\ "results" \in DOMAIN b.fields
    /\ b.fields["results"].t = "array"

Applied(fn) == fin.fn = fn /\ fout # NoOut

\* the envelope is tried first and the bare array is the fallback: an
\* envelope around the items and the bare array of the items decode to the
\* same typed output, the typed items in order when they are well formed
C16_EnvelopeEqualsBare ==
    Applied("unmarshalList") =>
        /\ IsBare(fin.data) =>
              /\ fout = unmarshalList(Envelope(fin.data.items, JNull))
              /\ WellFormed(fin.data.items) =>
                    fout = [err |-> "nil",
                            list |-> [i \in 1..Len(fin.data.items) |->
                                         TypedItem(fin.data.items[i])]]
        /\ ( /\ IsEnvelope(fin.data)
             /\ "next_cursor" \in DOMAIN fin.data.fields
             /\ fin.data.fields["next_cursor"] = JNull ) =>
              /\ fout = unmarshalList(Bare(fin.data.fields["results"].items))
              /\ WellFormed(fin.data.fields["results"].items) =>
                    fout = [err |-> "nil",
                            list |->
                              [i \in 1..Len(fin.data.fields["results"].items)
                                 |-> TypedItem(
                                       fin.data.fields["results"].items[i])]]

\* C16: the envelope is tried first with the bare array as fallback, the
\* envelope {"results": [...], "next_cursor": null} and the bare array of
\* the same items give identical typed output, and a body that is neither
\* form gives a parse failure.
C16_ListDecoding ==
    /\ C16_EnvelopeEqualsBare
    /\ (Applied("unmarshalList") /\ ~IsBare(fin.data) /\ ~IsEnvelope(fin.data))
          => fout.err # "nil"

\* the keys of the query string, and the parameters given a non-empty value
QueryKeys == {fout.query.pairs[i].key : i \in 1..Len(fout.query.pairs)}

NonEmptyParams == {k \in DOMAIN fin.dat.params : fin.dat.params[k] # <<>>}

\* C17: the query string of a GET request has exactly the parameters whose
\* value is a non-empty string, each once; no key= with an empty value is
\* ever sent, and when every parameter is empty no query string is appended.
C17_QueryNonEmptyParams ==
    (Applied("BuildRequest") /\ fin.m = "GET" /\ fin.dat.kind = "params") =>
        /\ QueryKeys = NonEmptyParams
        /\ Len(fout.query.pairs) = Cardinality(NonEmptyParams)
        /\ \A i \in 1..Len(fout.query.pairs) :
              /\ fout.query.pairs[i].value # <<>>
              /\ fin.dat.params[fout.query.pairs[i].key] = <<"7">> =>
                    fout.query.pairs[i].value = <<"7">>
        /\ fout.query.present <=> NonEmptyParams # {}

C17_Witness ==
    /\ Applied("BuildRequest")
    /\ fin.m = "GET"
    /\ fin.dat.kind = "params"
    /\ DOMAIN fin.dat.params = {"filter", "project_id", "task_id"}
    /\ fin.dat.params["project_id"] = <<>>
    /\ fin.dat.params["task_id"] = <<"7">>
    /\ fout.query.present
    /\ fout.query.pairs =
          <<[key |-> "filter",
             value |-> <<"p", "1", "+", "%", "2", "6", "+",
                         "t", "o", "d", "a", "y">>],
            [key |-> "task_id", value |-> <<"7">>]>>

\* the stored token is empty: the file is JSON null, or an object whose
\* api_token is absent, null or the empty text
EmptyStoredToken(file) ==
    /\ file.state = "present"
    /\ \/ file.data.t = "null"
       \/ /\ file.data.t = "object"
          /\ \/ "api_token" \notin DOMAIN file.data.fields
             \/ file.data.fields["api_token"].t = "null"
             \/ file.data.fields["api_token"] = JStr("")

\* C24: a non-empty TODOIST_API_TOKEN is returned by Load and GetToken
\* whatever the config file is; with the variable unset or empty the result
\* is that of the file: its token when it stores a non-empty one, a failure
\* when it is missing, unparsable or stores an empty token.
C24_EnvTokenFirst ==
    (Applied("Load") \/ Applied("GetToken")) =>
        /\ (fin.env.set /\ fin.env.v # "") =>
              fout = [err |-> "nil", token |-> fin.env.v]
        /\ (~fin.env.set \/ fin.env.v = "") =>
              /\ fin.file.state = "missing" => fout.err = "not configured"
              /\ (fin.file.state = "present" /\ fin.file.data = JInvalid) =>
                    fout.err = "failed to parse config"
              /\ EmptyStoredToken(fin.file) =>
                    fout.err = "no API token configured"
              /\ fin.file = [state |-> "present",
                             data |-> JObj("api_token" :> JStr("file-token"))]
                    => fout = [err |-> "nil", token |-> "file-token"]
              /\ fout.err # "nil" => fout.token = ""

C24_Witness ==
    /\ Applied("GetToken")
    /\ fin.env = [set |-> TRUE, v |-> "env-token"]
    /\ fin.file = [state |-> "present",
                   data |-> JObj("api_token" :> JStr("file-token"))]
    /\ fout = [err |-> "nil", token |-> "env-token"]

\* ========================================================================
\* Properties of the command handlers (checked under SpecCmd)
\* ========================================================================
Finished == cret # NoRet

CallsOf(api) == {i \in 1..Len(calls) : calls[i].api = api}

\* the handler fetched a section listing and no section of it matches the
\* given name
SectionMiss ==
    /\ cmd.name \in {"add", "move"}
    /\ cmd.section # <<>>
    /\ \E i \in CallsOf("GetSections") : calls[i].err = "nil"
    /\ \A i \in 1..Len(env.sections.list) :
           ~MatchesCI(env.sections.list[i].name, cmd.section)

\* C14: a command given a section name that matches no section of the
\* listing fails with "section not found: X" and makes no create or move
\* call, for add as well as for move.
C14_SectionMissFails ==
    (Finished /\ SectionMiss) =>
        /\ cret = [kind |-> "section_not_found", name |-> cmd.section]
        /\ CallsOf("AddTask") = {}
        /\ CallsOf("MoveTask") = {}

\* the part of C14 that the move command satisfies
C14_MoveSectionMissFails ==
    (Finished /\ SectionMiss /\ cmd.name = "move") =>
        /\ cret = [kind |-> "section_not_found", name |-> cmd.section]
        /\ CallsOf("MoveTask") = {}

\* the create and update calls of the run, and the JSON object each sent
WriteCalls == CallsOf("AddTask") \cup CallsOf("UpdateTask")

BodyOf(i) ==
    IF calls[i].api = "AddTask" THEN calls[i].arg ELSE calls[i].arg.body

\* C15: for a user priority p in 1..4 the add and update commands send
\* priority 5 - p, a bijection of 1..4 onto itself; with priority 0 the
\* request carries no priority at all.
C15_PriorityConversion ==
    /\ \A i \in WriteCalls :
          /\ cmd.priority \in 1..4 =>
                /\ "priority" \in DOMAIN BodyOf(i)
                /\ BodyOf(i)["priority"] = 5 - cmd.priority
                /\ BodyOf(i)["priority"] = <<4, 3, 2, 1>>[cmd.priority]
          /\ cmd.priority = 0 => "priority" \notin DOMAIN BodyOf(i)
    /\ (Finished /\ cmd.name \in {"add", "update"} /\ cret = Nil) =>
          Cardinality(WriteCalls) = 1
    /\ {5 - q : q \in 1..4} = 1..4
    /\ \A q, r \in 1..4 : (5 - q = 5 - r) => q = r

C15_Witness ==
    /\ cmd.name = "add"
    /\ cmd.priority = 1
    /\ cmd.project = <<>>
    /\ cret = Nil
    /\ calls = <<ACall("AddTask",
                       ("content" :> "Buy milk") @@ ("priority" :> 4),
                       "nil")>>

\* the indicator the user reads for a user priority
UserMarker == <<"p1", "p2", "p3", "">>

\* C23: the display inverts the conversion of the input. A task added or
\* updated with user priority p in 1..3 is printed with the marker p<p>, one
\* with p = 4 with no marker; view prints "Priority: p<n>" with n = 5 - API
\* priority exactly when the API priority is above 1, so API 4, 3, 2 show as
\* p1, p2, p3 and API 1 shows nothing.
C23_DisplayInvertsInput ==
    /\ ( /\ Finished
         /\ cmd.name \in {"add", "update"}
         /\ cret = Nil
         /\ ~cmd.asJSON
         /\ cmd.priority \in 1..4 ) =>
            /\ Len(stdout) = 1
            /\ stdout[1].kind = "task_line"
            /\ stdout[1].marker = UserMarker[cmd.priority]
    /\ ( /\ Finished
         /\ cmd.name = "view"
         /\ ~cmd.asJSON
         /\ stdout # <<>> ) =>
            LET shown == {i \in 1..Len(stdout) : stdout[i].kind = "Priority"}
            IN  /\ env.task.task.priority \in 2..4 =>
                      \E i \in shown :
                          /\ shown = {i}
                          /\ stdout[i].v =
                                <<0, 3, 2, 1>>[env.task.task.priority]
                /\ env.task.task.priority = 1 => shown = {}

C23_Witness ==
    /\ Finished
    /\ cmd.name = "add"
    /\ cmd.priority = 2
    /\ ~cmd.asJSON
    /\ cret = Nil
    /\ stdout[1].kind = "task_line"
    /\ stdout[1].task.priority = 3
    /\ stdout[1].marker = "p2"

\* the answers that read as "y" once trimmed and lower-cased
YesAnswers ==
    { <<"y", "\n">>, <<"Y", "\r", "\n">>, <<"y">>, <<" ", "y", " ", "\n">>,
      <<"y", "\n", "n", "\n">> }

MustAsk == ~cmd.force /\ ~cmd.asJSON

\* C25: delete sends DeleteTask only after a successful GetTask for the same
\* ID and, unless --force or JSON output is set, only after the answer "y";
\* with any other answer it prints "Cancelled", succeeds and sends no
\* delete request.
C25_DeleteAfterConfirmation ==
    (Finished /\ cmd.name = "delete") =>
        /\ \A i \in CallsOf("DeleteTask") :
              /\ calls[i].arg = cmd.taskID
              /\ \E j \in 1..(i - 1) :
                    /\ calls[j] = ACall("GetTask", cmd.taskID, "nil")
              /\ MustAsk => cmd.stdin \in YesAnswers
        /\ Cardinality(CallsOf("DeleteTask")) <= 1
        /\ ( /\ MustAsk
             /\ cmd.stdin \notin YesAnswers
             /\ env.client = "ok"
             /\ env.task.err = "nil" ) =>
                /\ CallsOf("DeleteTask") = {}
                /\ cret = Nil
                /\ stdout[Len(stdout)].msg = "Cancelled"
        /\ ( /\ env.client = "ok"
             /\ env.task.err = "nil"
             /\ (MustAsk => cmd.stdin \in YesAnswers) ) =>
                CallsOf("DeleteTask") # {}

C25_Witness ==
    /\ Finished
    /\ cmd.name = "delete"
    /\ ~cmd.force
    /\ ~cmd.asJSON
    /\ cmd.stdin = <<"Y", "\r", "\n">>
    /\ calls = <<ACall("GetTask", TaskID, "nil"),
                 ACall("DeleteTask", TaskID, "nil")>>
    /\ cret = Nil

\* the token the user gave is empty
NoToken ==
    IF cmd.hasArg THEN cmd.arg = <<>>
    ELSE cmd.stdin \in { <<"\n">>, <<" ", "\n">> }

\* C26: auth writes the configuration only after GetProjects succeeded with
\* the token it stores; an empty token fails before any call, and a failed
\* validation fails the command with "invalid token" and writes nothing.
C26_SaveAfterValidation ==
    (Finished /\ cmd.name = "auth") =>
        /\ \A i \in CallsOf("Save") :
              /\ i = 2
              /\ calls[1] = ACall("GetProjects", calls[i].arg, "nil")
              /\ calls[i].arg # <<>>
              /\ calls[i].arg \in { <<" ">>, <<"t", "k">> }
        /\ NoToken =>
              /\ calls = <<>>
              /\ cret = ApiErr("token cannot be empty")
        /\ (CallsOf("GetProjects") # {} /\ env.projects.err # "nil") =>
              /\ cret = Wrapped("invalid token", env.projects.err)
              /\ CallsOf("Save") = {}
        /\ cret = Nil => CallsOf("Save") # {}

C26_Witness ==
    /\ Finished
    /\ cmd.name = "auth"
    /\ ~cmd.hasArg
    /\ cmd.stdin = <<" ", "t", "k", "\r", "\n">>
    /\ calls = <<ACall("GetProjects", <<"t", "k">>, "nil"),
                 ACall("Save", <<"t", "k">>, "nil")>>
    /\ cret = Nil

\* the ID of the first element of the listing whose name matches q
FirstMatchID(list, q, id) ==
    \E k \in 1..Len(list) :
        /\ list[k].id = id
        /\ MatchesCI(list[k].name, q)
        /\ \A j \in 1..(k - 1) : ~MatchesCI(list[j].name, q)

\* C27: move fails with the usage error before any call when neither
\* section nor project is given; otherwise the item_move it sends names the
\* task and exactly one destination: the resolved section when a section
\* was given, the resolved project only when no section was given.
C27_OneDestination ==
    (Finished /\ cmd.name = "move") =>
        /\ (cmd.section = <<>> /\ cmd.project = <<>>) =>
              /\ calls = <<>>
              /\ cret = [kind |-> "usage"]
              /\ stdout = <<>>
        /\ \A i \in CallsOf("MoveTask") :
              /\ i = Len(calls)
              /\ calls[i].arg["id"] = cmd.taskID
              /\ cmd.section # <<>> =>
                    /\ DOMAIN calls[i].arg = {"id", "section_id"}
                    /\ FirstMatchID(env.sections.list, cmd.section,
                                    calls[i].arg["section_id"])
              /\ cmd.section = <<>> =>
                    /\ DOMAIN calls[i].arg = {"id", "project_id"}
                    /\ FirstMatchID(env.projects.projects, cmd.project,
                                    calls[i].arg["project_id"])
        /\ cret = Nil => Cardinality(CallsOf("MoveTask")) = 1

C27_Witness ==
    /\ Finished
    /\ cmd.name = "move"
    /\ cmd.section = <<"d", "o", "n", "e">>
    /\ cmd.project = <<"w", "o", "r", "k">>
    /\ cret = Nil
    /\ calls[Len(calls)] =
          ACall("MoveTask", ("id" :> TaskID) @@ ("section_id" :> 1), "nil")

FailedCalls == {i \in 1..Len(calls) : calls[i].err # "nil"}

\* C20: a command whose API call fails returns that failure, never success
\* with part of the data; this covers the comment fetch of view.
C20_AllOrNothing ==
    (Finished /\ FailedCalls # {}) =>
        /\ cret.kind \in {"error", "wrapped"}
        /\ \E i \in FailedCalls : cret.err = calls[i].err
        /\ stdout = <<>>

\* the part of C20 that add, update and move satisfy, and view up to its
\* GetTask call
C20_AllOrNothingButComments ==
    (Finished /\ \E i \in FailedCalls : calls[i].api # "GetComments") =>
        /\ cret.kind \in {"error", "wrapped"}
        /\ \E i \in FailedCalls : cret.err = calls[i].err
        /\ stdout = <<>>

\* ========================================================================
\* Properties of WriteTasks (checked under SpecWT)
\* ========================================================================
IDs == {wtTasks[i].id : i \in 1..Len(wtTasks)}

TaskLines == {k \in 1..Len(wtOut) : wtOut[k].kind = "task"}

\* the task of the list with the given ID (IDs are unique)
TaskWithID(id) == CHOOSE i \in 1..Len(wtTasks) : wtTasks[i].id = id

ParentOfLine(k) == wtTasks[TaskWithID(wtOut[k].id)].parent

OrderOfLine(k) == wtTasks[TaskWithID(wtOut[k].id)].childOrder

RootLine(k) == ParentOfLine(k) = 0 \/ ParentOfLine(k) \notin IDs

\* C22: the tasks are printed depth-first. A task without parent, or whose
\* parent is not in the list, is printed without indentation; a child is
\* printed after its parent, 2 spaces deeper, and before any later line that
\* is not below the parent; siblings appear in ascending child order. When
\* WriteTasks has returned, every root has been printed.
C22_DepthFirstForest ==
    /\ (wtPc = "done" /\ ~wtJSON) =>
          \A i \in 1..Len(wtTasks) :
              (wtTasks[i].parent = 0 \/ wtTasks[i].parent \notin IDs) =>
                  \E k \in TaskLines :
                      wtOut[k].id = wtTasks[i].id /\ wtOut[k].indent = 0
    /\ \A k \in TaskLines :
        /\ RootLine(k) => wtOut[k].indent = 0
        /\ ~RootLine(k) =>
              \E j \in 1..(k - 1) :
                  /\ wtOut[j].id = ParentOfLine(k)
                  /\ wtOut[k].indent = wtOut[j].indent + 2
                  /\ \A m \in (j + 1)..k : wtOut[m].indent > wtOut[j].indent
        /\ \A j \in 1..(k - 1) :
              ( \/ RootLine(j) /\ RootLine(k)
                \/ ~RootLine(k) /\ ParentOfLine(j) = ParentOfLine(k) ) =>
                  OrderOfLine(j) <= OrderOfLine(k)

\* an orphan root 2, its child 1 and the grandchild 3 below it
C22_Witness ==
    /\ wtPc = "done"
    /\ Len(wtTasks) = 3
    /\ wtTasks[1].parent = 2
    /\ wtTasks[2].parent = AbsentID
    /\ wtTasks[3].parent = 1
    /\ wtOut = <<[kind |-> "task", id |-> 2, indent |-> 0],
                 [kind |-> "task", id |-> 1, indent |-> 2],
                 [kind |-> "task", id |-> 3, indent |-> 4]>>

\* the task reached from task i by following n parent references, 0 when
\* the chain has left the list before
RECURSIVE AncestorOf(_, _)
AncestorOf(i, n) ==
    IF n = 0 THEN i
    ELSE LET a == AncestorOf(i, n - 1)
         IN  IF a = 0 \/ wtTasks[a].parent \notin IDs THEN 0
             ELSE TaskWithID(wtTasks[a].parent)

\* the parent references form a forest: every chain of parents leaves the
\* list
Forest == \A i \in 1..Len(wtTasks) : AncestorOf(i, Len(wtTasks)) = 0

TimesPrinted(i) ==
    Cardinality({k \in TaskLines : wtOut[k].id = wtTasks[i].id})

\* C30: WriteTasks terminates on every list (IDs are unique), and when the
\* parent references form a forest the human output has every task of the
\* list exactly once.
C30_TerminatesAndPrintsAll ==
    /\ <>(wtPc = "done")
    /\ [](( /\ wtPc = "done"
            /\ ~wtJSON
            /\ Len(wtTasks) > 0
            /\ Forest ) =>
               /\ Len(wtOut) = Len(wtTasks)
               /\ \A i \in 1..Len(wtTasks) : TimesPrinted(i) = 1)

C30_Witness ==
    /\ wtPc = "done"
    /\ ~wtJSON
    /\ Forest
    /\ Len(wtTasks) = 3
    /\ wtTasks[1].parent = 3
    /\ wtTasks[2].parent = 3
    /\ wtTasks[3].parent = 0
    /\ wtTasks[1].childOrder = 1
    /\ wtTasks[2].childOrder = 2
    /\ wtOut = <<[kind |-> "task", id |-> 3, indent |-> 0],
                 [kind |-> "task", id |-> 1, indent |-> 2],
                 [kind |-> "task", id |-> 2, indent |-> 2]>>
====
